---------------------------- MODULE Spec2Model ----------------------------
(***************************************************************************)
(* Career Data API: a model of the error taxonomy and mapper               *)
(* (src/utils/errors.ts), the generation resolvers and the Anthropic       *)
(* service (schema/resolvers.ts, services/anthropic.ts) and the entity     *)
(* repositories with their resolvers (services/mongodb.ts,                 *)
(* schema/resolvers.ts).                                                   *)
(*                                                                         *)
(* Texts are sequences of tokens: a literal piece of a template is one     *)
(* token, an interpolated value is spliced in, and String.includes is      *)
(* containment of a token.                                                 *)
(***************************************************************************)
EXTENDS Integers, Sequences, FiniteSets, TLC

VARIABLES
    \* ---- error formatter (SpecErr) ----
    execErrors,   \* execution.errors of the response being built
    response,     \* what createErrorFormatter returned, or NoResponse
    log,          \* entries written through logger.error for this request
    \* ---- generation (SpecGen) ----
    op,           \* the Generate / Revise operation in progress
    client,       \* anthropic.ts `client`: "null" or "created"
    apiKeySet,    \* whether process.env.ANTHROPIC_API_KEY is set
    requests,     \* requests the model provider received for this operation
    reads,        \* record-store reads this operation started
    \* ---- entity store (SpecStore) ----
    store,        \* collection name -> set of stored documents
    clock,        \* the wall clock new Date() reads
    nextOid,      \* how many ObjectIds the store has generated
    resp,         \* the last entity operation's request and outcome
    \* ---- profile (SpecProfile, SpecUpserts) ----
    upserts,      \* the updateProfile requests in flight
    \* ---- store connection (SpecConn) ----
    conn,         \* mongodb.ts cachedClient / cachedDb, the clients
                  \* constructed and the connectToDatabase calls in flight
    \* ---- request authentication (SpecAuth) ----
    auth          \* API_ACCESS_KEY, the last request's X-API-Key header and
                  \* reply, and the resolver / store / provider calls made

vars == <<execErrors, response, log, op, client, apiKeySet, requests, reads,
          store, clock, nextOid, resp, upserts, conn, auth>>

errVars   == <<execErrors, response, log>>
genVars   == <<op, client, apiKeySet, requests, reads>>
storeVars == <<store, clock, nextOid, resp>>

-----------------------------------------------------------------------------
(* Bounds of the model *)

MaxErrors == 2

\* Documents the store creates in one behaviour.
MaxCreates == 1

\* The last reading of the clock.
MaxClock == 1

\* Hex digits of an ObjectId string (24 in the store; shortened here).
IdLen == 2

\* Tokens in the description of a failure handed to an error mapper.
MaxTokens == 2

\* connectToDatabase calls in flight at the same time.
MaxCalls == 2

\* MongoClients constructed in one behaviour.
MaxClients == 2

\* HTTP requests handled in one behaviour.
MaxRequests == 3

\* Skills in a fetched skill list.
MaxSkills == 3

\* updateProfile requests the server handles at the same time.
MaxUpserts == 2

-----------------------------------------------------------------------------
(* Error codes and classes: errors.ts *)

UNAUTHENTICATED       == "UNAUTHENTICATED"
BAD_USER_INPUT        == "BAD_USER_INPUT"
NOT_FOUND             == "NOT_FOUND"
INTERNAL_SERVER_ERROR == "INTERNAL_SERVER_ERROR"
AI_SERVICE_ERROR      == "AI_SERVICE_ERROR"
DATABASE_ERROR        == "DATABASE_ERROR"

ErrorCodes ==
    { UNAUTHENTICATED, BAD_USER_INPUT, NOT_FOUND, INTERNAL_SERVER_ERROR,
      AI_SERVICE_ERROR, DATABASE_ERROR }

\* An absent optional value (undefined).
Undefined == <<>>

\* new Error(message)
RawError(message) ==
    [cls |-> "Error", name |-> "Error", message |-> message]

\* new APIError(message, code, details, originalError); `original` is a
\* sequence holding the wrapped error, empty when there is none.
APIError(name, message, code, details, original) ==
    [cls |-> "APIError", name |-> name, message |-> message, code |-> code,
     details |-> details, original |-> original]

AuthenticationError ==
    APIError("AuthenticationError", <<"Authentication required">>,
             UNAUTHENTICATED, Undefined, <<>>)

ValidationError(message, missingFields) ==
    APIError("ValidationError", message, BAD_USER_INPUT,
             <<[missingFields |-> missingFields]>>, <<>>)

NotFoundError(entityName, id) ==
    APIError("NotFoundError", <<entityName, " with ID ", id, " not found">>,
             NOT_FOUND, <<[entityName |-> entityName, id |-> id]>>, <<>>)

AIServiceError(message, original) ==
    APIError("AIServiceError", message, AI_SERVICE_ERROR, Undefined, original)

DatabaseError(message, original) ==
    APIError("DatabaseError", message, DATABASE_ERROR, Undefined, original)

\* new GraphQLError(message, { extensions }), optionally with the error it
\* locates as originalError.
GraphQLError(message, extensions, original) ==
    [cls |-> "GraphQLError", name |-> "GraphQLError", message |-> message,
     extensions |-> extensions, original |-> original]

HasCode(gqlError) == "code" \in DOMAIN gqlError.extensions

\* String.prototype.includes, on token texts.
Includes(text, token) == \E i \in 1..Len(text) : text[i] = token

-----------------------------------------------------------------------------
(* Logging *)

\* logError(error, context): the meta object handed to logger.error.
LogEntry(error, context) ==
    [errorName |-> error.name, errorMessage |-> error.message,
     context |-> context,
     code |-> IF error.cls = "APIError" THEN <<error.code>> ELSE <<>>,
     originalError |->
        IF error.cls = "APIError" /\ error.original # <<>>
        THEN <<error.original[1].message>> ELSE <<>>]

-----------------------------------------------------------------------------
(* Sanitization and conversion *)

SAFE_ERROR_MESSAGES ==
    [c \in ErrorCodes |->
        CASE c = UNAUTHENTICATED       -> <<"Authentication required">>
          [] c = BAD_USER_INPUT        -> <<"Invalid input provided">>
          [] c = NOT_FOUND             -> <<"Resource not found">>
          [] c = INTERNAL_SERVER_ERROR -> <<"An internal error occurred">>
          [] c = AI_SERVICE_ERROR      ->
                <<"AI service is temporarily unavailable">>
          [] c = DATABASE_ERROR        ->
                <<"Database service is temporarily unavailable">>]

isMessageSafe(error) ==
    error.code = BAD_USER_INPUT \/ error.code = NOT_FOUND

sanitizeErrorMessageLeaky(error) == error.message

sanitizeErrorMessage(error) ==
    IF isMessageSafe(error) THEN error.message
    ELSE IF error.code \in DOMAIN SAFE_ERROR_MESSAGES
         THEN SAFE_ERROR_MESSAGES[error.code]
         ELSE SAFE_ERROR_MESSAGES[INTERNAL_SERVER_ERROR]

\* The GraphQLError toGraphQLError returns (its log entry is in
\* formatGraphQLErrorLog).
toGraphQLError(error) ==
    LET base == [code |-> error.code]
        withDetails ==
            IF error.code = BAD_USER_INPUT /\ error.details # Undefined
            THEN [code |-> error.code, details |-> error.details[1]]
            ELSE base
        extensions ==
            IF error.code = NOT_FOUND /\ error.details # Undefined
            THEN [code |-> error.code,
                  entityName |->
                     IF "entityName" \in DOMAIN error.details[1]
                     THEN <<error.details[1].entityName>> ELSE Undefined,
                  entityId |->
                     IF "id" \in DOMAIN error.details[1]
                     THEN <<error.details[1].id>> ELSE Undefined]
            ELSE withDetails
    IN  GraphQLError(sanitizeErrorMessage(error), extensions, <<>>)

DefaultMessage == <<"An unexpected error occurred">>

wrapError(error) ==
    CASE error.cls = "APIError" -> error
      [] error.cls = "GraphQLError" ->
            APIError("APIError", error.message,
                     IF HasCode(error) THEN error.extensions.code
                     ELSE INTERNAL_SERVER_ERROR,
                     <<error.extensions>>, <<>>)
      [] error.cls = "Error" ->
            APIError("APIError", DefaultMessage, INTERNAL_SERVER_ERROR,
                     Undefined, <<error>>)
      [] OTHER ->
            APIError("APIError", DefaultMessage, INTERNAL_SERVER_ERROR,
                     Undefined, <<>>)

\* error.originalError || error
OriginalOrSelf(error) ==
    IF error.original # <<>> THEN error.original[1] ELSE error

formatGraphQLError(error) ==
    IF HasCode(error) THEN error
    ELSE toGraphQLError(wrapError(OriginalOrSelf(error)))

\* What formatGraphQLError logs (through toGraphQLError).
formatGraphQLErrorLog(error) ==
    IF HasCode(error) THEN <<>>
    ELSE <<LogEntry(wrapError(OriginalOrSelf(error)), "none")>>

\* The GraphQL executor hands the formatter GraphQLErrors: an error of
\* another class thrown by a resolver arrives as a GraphQLError with the
\* thrown error's message, no extensions, and the thrown error as
\* originalError.
LocatedError(thrown) ==
    IF thrown.cls = "GraphQLError" THEN thrown
    ELSE GraphQLError(thrown.message, [x \in {} |-> x], <<thrown>>)


-----------------------------------------------------------------------------
(* Provider and store error mappers *)

\* error instanceof Error ? error : new Error(String(error))
AsError(error) ==
    IF error.cls = "Value" THEN RawError(error.message) ELSE error

handleAnthropicErrorRateLimitFirst(error) ==
    LET wrappedError == AsError(error) IN
    IF Includes(wrappedError.message, "rate limit")
    THEN AIServiceError(
            <<"AI service rate limit exceeded. Please try again later.">>,
            <<wrappedError>>)
    ELSE IF Includes(wrappedError.message, "API key")
    THEN AIServiceError(<<"AI service configuration error">>, <<wrappedError>>)
    ELSE IF Includes(wrappedError.message, "timeout")
    THEN AIServiceError(
            <<"AI service request timed out. Please try again.">>,
            <<wrappedError>>)
    ELSE AIServiceError(
            <<"Failed to generate content. Please try again later.">>,
            <<wrappedError>>)

\* The error handleAnthropicError throws.
handleAnthropicError(error) ==
    LET wrappedError == AsError(error) IN
    IF Includes(wrappedError.message, "API key")
    THEN AIServiceError(<<"AI service configuration error">>, <<wrappedError>>)
    ELSE IF Includes(wrappedError.message, "rate limit")
    THEN AIServiceError(
            <<"AI service rate limit exceeded. Please try again later.">>,
            <<wrappedError>>)
    ELSE IF Includes(wrappedError.message, "timeout")
    THEN AIServiceError(
            <<"AI service request timed out. Please try again.">>,
            <<wrappedError>>)
    ELSE AIServiceError(
            <<"Failed to generate content. Please try again later.">>,
            <<wrappedError>>)

handleAnthropicErrorLog(error) ==
    <<LogEntry(AsError(error), "anthropic")>>

\* The error handleDatabaseError throws.
handleDatabaseError(error) ==
    LET wrappedError == AsError(error) IN
    IF Includes(wrappedError.message, "connection")
    THEN DatabaseError(
            <<"Database connection error. Please try again later.">>,
            <<wrappedError>>)
    ELSE IF Includes(wrappedError.message, "duplicate key")
    THEN ValidationError(
            <<"A record with this identifier already exists">>, Undefined)
    ELSE DatabaseError(
            <<"Database operation failed. Please try again later.">>,
            <<wrappedError>>)

handleDatabaseErrorLog(error) ==
    <<LogEntry(AsError(error), "mongodb")>>

\* getAnthropicClient without ANTHROPIC_API_KEY
ApiKeyNotSetError ==
    AIServiceError(<<"ANTHROPIC_API_KEY environment variable is not set">>,
                   <<>>)

\* connectToDatabase's catch block
ConnectFailedError(text) ==
    RawError(<<"Failed to connect to MongoDB: ">> \o text)

-----------------------------------------------------------------------------
(* Resolver helpers: schema/resolvers.ts *)

\* Array.prototype.join(", ")
RECURSIVE Join(_)
Join(fields) ==
    IF fields = <<>> THEN <<>>
    ELSE IF Len(fields) = 1 THEN <<fields[1]>>
    ELSE <<fields[1], ", ">> \o Join(Tail(fields))

\* throwNotFound(entityName, id)
NotFoundGraphQLError(entityName, id) ==
    GraphQLError(<<entityName, " with ID ", id, " not found">>,
                 [code |-> NOT_FOUND], <<>>)

\* validateObjectId's error
InvalidIdError(entityName) ==
    GraphQLError(<<"Invalid ", entityName, " ID format">>,
                 [code |-> BAD_USER_INPUT], <<>>)

MissingFieldsError(prefix, missingFields) ==
    GraphQLError(<<prefix>> \o Join(missingFields),
                 [code |-> BAD_USER_INPUT, missingFields |-> missingFields],
                 <<>>)

SingleFieldError(field) ==
    GraphQLError(<<"Missing required field: ", field>>,
                 [code |-> BAD_USER_INPUT, missingFields |-> <<field>>],
                 <<>>)

Whitespace == {" ", "\n", "\t"}

RECURSIVE TrimStart(_)
TrimStart(s) ==
    IF s # <<>> /\ s[1] \in Whitespace THEN TrimStart(Tail(s)) ELSE s

RECURSIVE TrimEnd(_)
TrimEnd(s) ==
    IF s # <<>> /\ s[Len(s)] \in Whitespace
    THEN TrimEnd(SubSeq(s, 1, Len(s) - 1)) ELSE s

\* String.prototype.trim
Trim(s) == TrimEnd(TrimStart(s))

\* !s || s.trim() === ""
Blank(s) == s = <<>> \/ Trim(s) = <<>>

validateJobInfoInputFirstOnly(jobInfo) ==
    IF Blank(jobInfo.description)
    THEN <<MissingFieldsError("Missing required fields in jobInfo: ",
                              <<"description">>)>>
    ELSE IF Blank(jobInfo.jobType)
    THEN <<MissingFieldsError("Missing required fields in jobInfo: ",
                              <<"jobType">>)>>
    ELSE <<>>

\* The validators return the sequence of errors they throw: empty when the
\* input passes, one error otherwise.
validateJobInfoInput(jobInfo) ==
    LET missingFields ==
            (IF Blank(jobInfo.description) THEN <<"description">> ELSE <<>>)
         \o (IF Blank(jobInfo.jobType) THEN <<"jobType">> ELSE <<>>)
    IN  IF Len(missingFields) > 0
        THEN <<MissingFieldsError("Missing required fields in jobInfo: ",
                                  missingFields)>>
        ELSE <<>>

validateQuestion(question) ==
    IF Blank(question) THEN <<SingleFieldError("question")>> ELSE <<>>

validateFeedback(feedback) ==
    IF Blank(feedback) THEN <<SingleFieldError("feedback")>> ELSE <<>>

-----------------------------------------------------------------------------
(* The error formatter: createErrorFormatter *)

NoResponse == [statusCode |-> 0, errors |-> <<>>]

\* Raw texts of provider and store exceptions.
RawTexts ==
    { <<"401 invalid ", "API key">>,
      <<"429 ", "rate limit", " reached">>,
      <<"request ", "timeout">>,
      <<"socket hang up">>,
      <<"connection", " refused 10.0.0.7:27017">>,
      <<"E11000 ", "duplicate key", " error">> }

EntityNames == {"Experience", "Skill", "Project", "Education"}

RECURSIVE FormatterLog(_)
FormatterLog(errors) ==
    IF errors = <<>> THEN <<>>
    ELSE <<LogEntry(errors[1], "graphql-execution")>>
         \o formatGraphQLErrorLog(errors[1])
         \o FormatterLog(Tail(errors))

StatusCodeOfFirst(errors) ==
    LET code == IF errors # <<>> /\ HasCode(errors[1])
                THEN errors[1].extensions.code ELSE "" IN
    IF code = UNAUTHENTICATED THEN 401
    ELSE IF code = NOT_FOUND THEN 404
    ELSE IF code = BAD_USER_INPUT THEN 400
    ELSE 200

StatusCode(errors) ==
    LET has(code) ==
            \E i \in 1..Len(errors) :
                HasCode(errors[i]) /\ errors[i].extensions.code = code
    IN  IF has(UNAUTHENTICATED) THEN 401
        ELSE IF has(NOT_FOUND) THEN 404
        ELSE IF has(BAD_USER_INPUT) THEN 400
        ELSE 200

\* A resolver (or the executor) raised `thrown`, having logged `entries`.
Raise(thrown, entries) ==
    /\ response = NoResponse
    /\ Len(execErrors) < MaxErrors
    /\ execErrors' = Append(execErrors, LocatedError(thrown))
    /\ log' = log \o entries
    /\ UNCHANGED <<auth, conn, upserts, response, genVars, storeVars>>

InputRejected ==
    \/ \E d, t \in {<<>>, <<"x">>} :
          /\ validateJobInfoInput([description |-> d, jobType |-> t]) # <<>>
          /\ Raise(validateJobInfoInput([description |-> d, jobType |-> t])[1],
                   <<>>)
    \/ Raise(validateQuestion(<<>>)[1], <<>>)
    \/ Raise(validateFeedback(<<" ">>)[1], <<>>)
    \/ \E n \in EntityNames : Raise(InvalidIdError(n), <<>>)

EntityNotFound ==
    \E n \in EntityNames, id \in {"a1", "a2"} :
        Raise(NotFoundGraphQLError(n, id), <<>>)

ProviderFailed ==
    \E text \in RawTexts, cls \in {"Error", "Value"} :
        LET error == [cls |-> cls, name |-> cls, message |-> text] IN
        Raise(handleAnthropicError(error), handleAnthropicErrorLog(error))

ProviderNotConfigured == Raise(ApiKeyNotSetError, <<>>)

\* A store call rejected and nothing caught it.
StoreFailed ==
    \E text \in RawTexts :
        \/ Raise(RawError(text), <<>>)
        \/ Raise(ConnectFailedError(text), <<>>)

\* A store failure classified by handleDatabaseError.
StoreFailureMapped ==
    \E text \in RawTexts :
        Raise(handleDatabaseError(RawError(text)),
              handleDatabaseErrorLog(RawError(text)))

\* The error classes the module exports, thrown as they are.
ApiErrorRaised ==
    \/ Raise(AuthenticationError, <<>>)
    \/ \E n \in EntityNames : Raise(NotFoundError(n, "a1"), <<>>)
    \/ Raise(ValidationError(<<"Rating must be between 1 and 10">>,
                             <<"rating">>), <<>>)

\* The executor rejected the document itself: a GraphQLError with no code.
QueryRejected ==
    Raise(GraphQLError(<<"Syntax Error: Unexpected Name">>,
                       [x \in {} |-> x], <<>>), <<>>)

\* An error that arrives with a code of its own in its extensions, such as
\* a GraphQLError a dependency threw.
CodedErrorRaised ==
    \E code \in {"FORBIDDEN", "RATE_LIMITED"} :
        Raise(GraphQLError(<<"quota exceeded for ", "org-42">>,
                           [code |-> code], <<>>), <<>>)

\* The formatter Mercurius calls with execution.errors.
FormatResponse ==
    /\ response = NoResponse
    /\ execErrors # <<>>
    /\ response' =
          LET errors == [i \in 1..Len(execErrors) |->
                            formatGraphQLError(execErrors[i])]
          IN  [statusCode |-> StatusCode(errors), errors |-> errors]
    /\ log' = log \o FormatterLog(execErrors)
    /\ UNCHANGED <<auth, conn, upserts, execErrors, genVars, storeVars>>

NextRequest ==
    /\ response # NoResponse
    /\ execErrors' = <<>>
    /\ response' = NoResponse
    /\ log' = <<>>
    /\ UNCHANGED <<auth, conn, upserts, genVars, storeVars>>

-----------------------------------------------------------------------------
(* Generation: the six AI mutations of schema/resolvers.ts and            *)
(* services/anthropic.ts                                                   *)

Mutations ==
    { "generateResume", "reviseResume", "generateCoverLetter",
      "reviseCoverLetter", "generateAnswer", "reviseAnswer" }

IsRevise(mutation) ==
    mutation \in {"reviseResume", "reviseCoverLetter", "reviseAnswer"}

IsAnswer(mutation) == mutation \in {"generateAnswer", "reviseAnswer"}

\* The five reads of fetchCareerData.
Fetches == {"profile", "experiences", "skills", "projects", "educations"}

\* Caller-supplied texts.
Descriptions ==
    { <<>>, <<" ", "\n">>, <<"Senior Engineer role">>,
      <<" ", "Staff role", " ">> }
JobTypes     == { <<>>, <<" ">>, <<"software_engineer">> }
Feedbacks    == { <<>>, <<"\t">>, <<"Make it shorter">> }
Questions    == { <<>>, <<" ">>, <<"Why this company?">> }
Answers      == { <<>>, <<"Because of the mission.">> }
Contexts     == { <<>>, <<"Emphasise leadership">> }

NoArgs ==
    [jobInfo |-> [description |-> <<>>, jobType |-> <<>>],
     additionalContext |-> <<>>, question |-> <<>>, currentAnswer |-> <<>>,
     feedback |-> <<>>]

\* The arguments each mutation takes; the ones it does not take stay empty.
ArgsOf(mutation) ==
    { [jobInfo |-> [description |-> d, jobType |-> t],
       additionalContext |-> a, question |-> q, currentAnswer |-> c,
       feedback |-> f] :
         d \in Descriptions, t \in JobTypes,
         a \in (IF mutation \in {"generateResume", "generateCoverLetter"}
                THEN Contexts ELSE {<<>>}),
         q \in (IF IsAnswer(mutation) THEN Questions ELSE {<<>>}),
         c \in (IF IsAnswer(mutation) THEN Answers ELSE {<<>>}),
         f \in (IF IsRevise(mutation) THEN Feedbacks ELSE {<<>>}) }

\* The validation each resolver runs before anything else: the first error
\* thrown, if any.
ValidateGeneration(mutation, args) ==
    LET jobInfoErr  == validateJobInfoInput(args.jobInfo)
        questionErr == IF IsAnswer(mutation)
                       THEN validateQuestion(args.question) ELSE <<>>
        feedbackErr == IF IsRevise(mutation)
                       THEN validateFeedback(args.feedback) ELSE <<>>
    IN  IF jobInfoErr # <<>> THEN jobInfoErr
        ELSE IF questionErr # <<>> THEN questionErr
        ELSE feedbackErr

\* buildResumeSystemPrompt / buildCoverLetterSystemPrompt /
\* buildAnswerSystemPrompt over the aggregated career data.
SystemPrompt(mutation) ==
    CASE mutation \in {"generateResume", "reviseResume"} ->
            <<"You are an expert resume writer", "careerContext",
              "resume guidelines">>
      [] mutation \in {"generateCoverLetter", "reviseCoverLetter"} ->
            <<"You are an expert cover letter writer", "careerContext",
              "cover letter guidelines">>
      [] OTHER ->
            <<"You are an expert at crafting compelling answers",
              "careerContext", "answer guidelines">>

\* createCachedTextBlock
createCachedTextBlock(text) ==
    [type |-> "text", text |-> text, cache_control |-> "ephemeral"]

JobBlock(args) ==
    <<"\n\n**Job Type:** ">> \o args.jobInfo.jobType
    \o <<"\n\n**Job Description:**\n">> \o args.jobInfo.description

\* The user message of generateResume / generateCoverLetter /
\* generateAnswer.
GenerateUserMessage(mutation, args) ==
    CASE mutation = "generateResume" ->
            <<"Please create a tailored resume for the following job opportunity:">>
            \o JobBlock(args)
            \o (IF args.additionalContext # <<>>
                THEN <<"\n\n**Additional Context:**\n">>
                     \o args.additionalContext
                ELSE <<>>)
      [] mutation = "generateCoverLetter" ->
            <<"Please create a tailored cover letter for the following job opportunity:">>
            \o JobBlock(args)
            \o (IF args.additionalContext # <<>>
                THEN <<"\n\n**Additional Context:**\n">>
                     \o args.additionalContext
                ELSE <<>>)
      [] mutation = "generateAnswer" ->
            <<"Please help me answer the following job application question:">>
            \o JobBlock(args)
            \o <<"\n\n**Question:**\n">> \o args.question
            \o (IF args.currentAnswer # <<>>
                THEN <<"\n\n**Current Answer (to improve upon):**\n">>
                     \o args.currentAnswer
                ELSE <<>>)

Turn(role, content) == [role |-> role, content |-> content]

ReviseMessagesSwapped(mutation, args) ==
    <<Turn("user",
           <<"Please create a tailored resume for the following job opportunity:">>
           \o JobBlock(args)),
      Turn("assistant", args.currentAnswer),
      Turn("user", <<"Please revise based on the following feedback:\n\n">>
                   \o args.feedback)>>

\* The conversation of reviseResume / reviseCoverLetter / reviseAnswer.
ReviseMessages(mutation, args) ==
    CASE mutation = "reviseResume" ->
            <<Turn("user",
                   <<"Please create a tailored resume for the following job opportunity:">>
                   \o <<"\n\n**Job Type:** ">> \o args.jobInfo.jobType
                   \o <<"\n\n**Job Description:**\n">>
                   \o args.jobInfo.description),
              Turn("assistant",
                   <<"I've created a resume based on the job description. Please provide feedback for revisions.">>),
              Turn("user",
                   <<"Please revise the resume based on the following feedback:\n\n">>
                   \o args.feedback)>>
      [] mutation = "reviseCoverLetter" ->
            <<Turn("user",
                   <<"Please create a tailored cover letter for the following job opportunity:">>
                   \o <<"\n\n**Job Type:** ">> \o args.jobInfo.jobType
                   \o <<"\n\n**Job Description:**\n">>
                   \o args.jobInfo.description),
              Turn("assistant",
                   <<"I've created a cover letter based on the job description. Please provide feedback for revisions.">>),
              Turn("user",
                   <<"Please revise the cover letter based on the following feedback:\n\n">>
                   \o args.feedback)>>
      [] mutation = "reviseAnswer" ->
            <<Turn("user",
                   <<"Please help me answer the following job application question:">>
                   \o <<"\n\n**Job Type:** ">> \o args.jobInfo.jobType
                   \o <<"\n\n**Job Description:**\n">>
                   \o args.jobInfo.description
                   \o <<"\n\n**Question:**\n">> \o args.question),
              Turn("assistant", args.currentAnswer),
              Turn("user",
                   <<"Please revise the answer based on the following feedback:\n\n">>
                   \o args.feedback)>>

\* The anthropic.messages.create request of generateContent /
\* generateContentWithHistory.
BuildRequest(mutation, args) ==
    [system   |-> <<createCachedTextBlock(SystemPrompt(mutation))>>,
     messages |-> IF IsRevise(mutation)
                  THEN ReviseMessages(mutation, args)
                  ELSE <<Turn("user", GenerateUserMessage(mutation, args))>>]

\* Promise.all over the five reads: rejected as soon as one read has failed,
\* fulfilled once all have succeeded.
AggregationOutcomePartial(fetch) ==
    IF \E f \in Fetches : fetch[f] = "pending" THEN "pending"
    ELSE "fulfilled"

AggregationOutcome(fetch) ==
    IF \E f \in Fetches : fetch[f] = "failed" THEN "rejected"
    ELSE IF \A f \in Fetches : fetch[f] = "ok" THEN "fulfilled"
    ELSE "pending"

\* Replies of the provider: content blocks and usage.
Replies ==
    { [content |-> <<[type |-> "text", text |-> <<"# Resume">>]>>,
       usage |-> [input_tokens |-> 2, output_tokens |-> 1,
                  cache |-> <<>>]],
      [content |-> <<[type |-> "tool_use", text |-> <<>>],
                     [type |-> "text", text |-> <<"Dear team">>],
                     [type |-> "text", text |-> <<"PS">>]>>,
       usage |-> [input_tokens |-> 1, output_tokens |-> 2,
                  cache |-> <<[read |-> 1, creation |-> 0]>>]],
      [content |-> <<>>,
       usage |-> [input_tokens |-> 1, output_tokens |-> 0,
                  cache |-> <<>>]] }

\* response.content.find(block => block.type === "text")
RECURSIVE FindTextBlock(_)
FindTextBlock(blocks) ==
    IF blocks = <<>> THEN <<>>
    ELSE IF blocks[1].type = "text" THEN <<blocks[1]>>
    ELSE FindTextBlock(Tail(blocks))

\* The GenerationResult built from a reply.
ExtractResultFirstBlock(reply) ==
    [content |-> IF reply.content # <<>> THEN reply.content[1].text
                 ELSE <<>>,
     usage |->
        [inputTokens  |-> reply.usage.input_tokens,
         outputTokens |-> reply.usage.output_tokens,
         cacheReadInputTokens |->
            IF reply.usage.cache # <<>>
            THEN <<reply.usage.cache[1].read>> ELSE Undefined,
         cacheCreationInputTokens |->
            IF reply.usage.cache # <<>>
            THEN <<reply.usage.cache[1].creation>> ELSE Undefined]]

ExtractResult(reply) ==
    LET textContent == FindTextBlock(reply.content) IN
    [content |-> IF textContent # <<>> THEN textContent[1].text ELSE <<>>,
     usage |->
        [inputTokens  |-> reply.usage.input_tokens,
         outputTokens |-> reply.usage.output_tokens,
         cacheReadInputTokens |->
            IF reply.usage.cache # <<>>
            THEN <<reply.usage.cache[1].read>> ELSE Undefined,
         cacheCreationInputTokens |->
            IF reply.usage.cache # <<>>
            THEN <<reply.usage.cache[1].creation>> ELSE Undefined]]

NoOutcome == [status |-> "none", error |-> <<>>, result |-> <<>>]
Failed(error) == [status |-> "error", error |-> <<error>>, result |-> <<>>]
Succeeded(result) == [status |-> "ok", error |-> <<>>, result |-> <<result>>]

IdleOp ==
    [pc |-> "idle", mutation |-> "generateResume", args |-> NoArgs,
     fetch |-> [f \in Fetches |-> "idle"], sent |-> <<>>,
     reply |-> <<>>, outcome |-> NoOutcome]

\* The catch block of generateContent / generateContentWithHistory:
\* handleAnthropicError throws, and the operation ends.
OnProviderFailureRetry(o, error) == [o EXCEPT !.pc = "aggregated"]

OnProviderFailure(o, error) ==
    [o EXCEPT !.pc = "done", !.outcome = Failed(handleAnthropicError(error))]

\* The resolver is called: it validates its arguments and, when they pass,
\* calls fetchCareerData, which starts the five reads.
StartOperation ==
    \E mutation \in Mutations :
      \E args \in ArgsOf(mutation) :
        /\ op.pc = "idle"
        /\ LET err == ValidateGeneration(mutation, args) IN
           IF err # <<>>
           THEN /\ op' = [op EXCEPT !.pc = "done", !.mutation = mutation,
                                    !.args = args, !.outcome = Failed(err[1])]
                /\ reads' = reads
           ELSE /\ op' = [op EXCEPT !.pc = "fetching", !.mutation = mutation,
                                    !.args = args,
                                    !.fetch = [f \in Fetches |-> "pending"]]
                /\ reads' = reads + Cardinality(Fetches)
        /\ UNCHANGED <<auth, conn, upserts, client, apiKeySet, requests, errVars, storeVars>>

\* What a settled read means for the operation awaiting Promise.all.
AfterFetch(o, error) ==
    CASE AggregationOutcome(o.fetch) = "fulfilled" ->
            [o EXCEPT !.pc = "aggregated"]
      [] AggregationOutcome(o.fetch) = "rejected" ->
            [o EXCEPT !.pc = "done", !.outcome = Failed(error)]
      [] OTHER -> o

FetchSucceeds ==
    \E f \in Fetches :
        /\ op.pc = "fetching"
        /\ op.fetch[f] = "pending"
        /\ op' = AfterFetch([op EXCEPT !.fetch[f] = "ok"], RawError(<<>>))
        /\ UNCHANGED <<auth, conn, upserts, client, apiKeySet, requests, reads, errVars,
                       storeVars>>

FetchFails ==
    \E f \in Fetches, text \in {<<"socket hang up">>,
                                <<"connection", " refused 10.0.0.7:27017">>} :
        /\ op.pc = "fetching"
        /\ op.fetch[f] = "pending"
        /\ op' = AfterFetch([op EXCEPT !.fetch[f] = "failed"],
                            ConnectFailedError(text))
        /\ UNCHANGED <<auth, conn, upserts, client, apiKeySet, requests, reads, errVars,
                       storeVars>>

\* The resolver resumes with the career data: it builds the prompt and the
\* messages and calls generateContent / generateContentWithHistory, which gets
\* the client and sends the request.
CallProvider ==
    /\ op.pc = "aggregated"
    /\ IF client = "null" /\ ~apiKeySet
       THEN /\ op' = [op EXCEPT !.pc = "done",
                                !.outcome = Failed(ApiKeyNotSetError)]
            /\ UNCHANGED <<auth, conn, upserts, client, requests>>
       ELSE /\ client' = "created"
            /\ requests' = requests + 1
            /\ op' = [op EXCEPT !.pc = "calling",
                         !.sent = Append(op.sent,
                                         BuildRequest(op.mutation, op.args))]
    /\ UNCHANGED <<auth, conn, upserts, apiKeySet, reads, errVars, storeVars>>

ProviderReplies ==
    \E reply \in Replies :
        /\ op.pc = "calling"
        /\ op' = [op EXCEPT !.pc = "done", !.reply = <<reply>>,
                            !.outcome = Succeeded(ExtractResult(reply))]
        /\ UNCHANGED <<auth, conn, upserts, client, apiKeySet, requests, reads, errVars,
                       storeVars>>

ProviderFails ==
    \E text \in RawTexts, cls \in {"Error", "Value"} :
        LET error == [cls |-> cls, name |-> cls, message |-> text] IN
        /\ op.pc = "calling"
        /\ op' = OnProviderFailure(op, error)
        /\ log' = log \o handleAnthropicErrorLog(error)
        /\ UNCHANGED <<auth, conn, upserts, client, apiKeySet, requests, reads, execErrors,
                       response, storeVars>>

\* The result or the failure goes back to the caller; the next operation may
\* start.
OperationReturns ==
    /\ op.pc = "done"
    /\ op' = IdleOp
    /\ requests' = 0
    /\ reads' = 0
    /\ log' = <<>>
    /\ UNCHANGED <<auth, conn, upserts, client, apiKeySet, execErrors, response, storeVars>>

GenNext ==
    \/ StartOperation
    \/ FetchSucceeds
    \/ FetchFails
    \/ CallProvider
    \/ ProviderReplies
    \/ ProviderFails
    \/ OperationReturns

-----------------------------------------------------------------------------
(* Entity store: services/mongodb.ts and the entity resolvers              *)

Collections == {"experiences", "skills", "projects", "educations"}

\* The name validateObjectId puts in its message, and the one throwNotFound
\* puts in its message.
IdEntityName(coll) ==
    CASE coll = "experiences" -> "experience"
      [] coll = "skills"      -> "skill"
      [] coll = "projects"    -> "project"
      [] coll = "educations"  -> "education"

NotFoundEntityName(coll) ==
    CASE coll = "experiences" -> "Experience"
      [] coll = "skills"      -> "Skill"
      [] coll = "projects"    -> "Project"
      [] coll = "educations"  -> "Education"

\* ---- ObjectId and its hex string ----

HexLower == <<"0", "1", "2", "3", "4", "5", "6", "7", "8", "9",
              "a", "b", "c", "d", "e", "f">>
HexUpper == <<"0", "1", "2", "3", "4", "5", "6", "7", "8", "9",
              "A", "B", "C", "D", "E", "F">>

IsHexChar(c) == \E d \in 1..16 : HexLower[d] = c \/ HexUpper[d] = c

DigitValue(c) ==
    (CHOOSE d \in 1..16 : HexLower[d] = c \/ HexUpper[d] = c) - 1

\* ObjectId.isValid on a string: the ObjectId constructor accepts it.
ObjectIdIsValid(id) ==
    /\ Len(id) = IdLen
    /\ \A i \in 1..Len(id) : IsHexChar(id[i])

RECURSIVE HexValue(_)
HexValue(id) ==
    IF id = <<>> THEN 0
    ELSE 16 * HexValue(SubSeq(id, 1, Len(id) - 1)) + DigitValue(id[Len(id)])

\* new ObjectId(id): the ObjectId as a number.
ParseObjectId(id) == HexValue(id)

RECURSIVE HexDigits(_, _)
HexDigits(n, width) ==
    IF width = 0 THEN <<>>
    ELSE Append(HexDigits(n \div 16, width - 1), HexLower[(n % 16) + 1])

\* ObjectId.prototype.toHexString
ToHexString(oid) == HexDigits(oid, IdLen)

\* The identifier string as one piece of a message.
RECURSIVE IdText(_)
IdText(id) == IF id = <<>> THEN "" ELSE Head(id) \o IdText(Tail(id))

\* The error new ObjectId throws on a malformed string.
BSONError ==
    RawError(<<"input must be a 24 character hex string, 12 byte Uint8Array, or an integer">>)

\* ---- documents ----

\* Input checks of the validate*Input functions, in their order:
\* "truthy" for !input.f, "array" for !input.f || !Array.isArray(input.f),
\* "defined" for input.f === undefined.
FieldChecks(coll) ==
    CASE coll = "experiences" ->
            << <<"company", "truthy">>, <<"location", "truthy">>,
               <<"title", "truthy">>, <<"startDate", "truthy">>,
               <<"roleTypes", "array">>, <<"responsibilities", "array">>,
               <<"achievements", "array">>, <<"technologies", "array">>,
               <<"featured", "defined">> >>
      [] coll = "skills" ->
            << <<"name", "truthy">>, <<"roleRelevance", "truthy">>,
               <<"level", "truthy">>, <<"rating", "defined">>,
               <<"yearsOfExperience", "defined">>, <<"tags", "array">>,
               <<"keywords", "array">> >>
      [] coll = "projects" ->
            << <<"name", "truthy">>, <<"type", "truthy">>,
               <<"featured", "defined">>, <<"overview", "truthy">>,
               <<"technologies", "array">>, <<"keywords", "array">>,
               <<"roleTypes", "array">> >>
      [] coll = "educations" ->
            << <<"institution", "truthy">>, <<"degree", "truthy">>,
               <<"field", "truthy">>, <<"graduationYear", "defined">>,
               <<"relevantCoursework", "array">> >>

\* The optional fields of the input types.
OptionalFields(coll) ==
    CASE coll = "experiences" -> {"industry", "endDate"}
      [] coll = "projects" ->
            {"date", "challenge", "approach", "outcome", "impact"}
      [] OTHER -> {}

\* Field values are written as their JSON text.
FalsyValues == {"\"\"", "0", "false", "null"}
ArrayValues == {"[]", "[\"v1\"]", "[\"v2\"]"}

FieldMissing(input, check) ==
    LET f == check[1] IN
    CASE check[2] = "truthy" ->
            f \notin DOMAIN input \/ input[f] \in FalsyValues
      [] check[2] = "array" ->
            f \notin DOMAIN input \/ input[f] \in FalsyValues
               \/ input[f] \notin ArrayValues
      [] check[2] = "defined" -> f \notin DOMAIN input

RECURSIVE MissingFields(_, _)
MissingFields(input, checks) ==
    IF checks = <<>> THEN <<>>
    ELSE (IF FieldMissing(input, checks[1]) THEN <<checks[1][1]>> ELSE <<>>)
         \o MissingFields(input, Tail(checks))

\* validateExperienceInput / validateSkillInput / validateProjectInput /
\* validateEducationInput
validateEntityInput(coll, input) ==
    LET missingFields == MissingFields(input, FieldChecks(coll)) IN
    IF Len(missingFields) > 0
    THEN <<MissingFieldsError("Missing required fields: ", missingFields)>>
    ELSE <<>>

validateObjectIdLax(id, entityName) == <<>>

validateObjectId(id, entityName) ==
    IF ~ObjectIdIsValid(id) THEN <<InvalidIdError(entityName)>> ELSE <<>>

\* The fields of scalar type DateTime in the input types.
DateFields(coll) ==
    CASE coll = "experiences" -> {"startDate", "endDate"}
      [] coll = "projects"    -> {"date"}
      [] OTHER -> {}

\* DateTime.__parseValue: new Date(value). A Date is written Date(<its ISO
\* text>), an invalid one Date(NaN).
DateTime_parseValue(value) ==
    CASE value = "\"2020-01-15\"" -> "Date(2020-01-15T00:00:00.000Z)"
      [] value = "\"2020-01-15T00:00:00.000Z\"" ->
            "Date(2020-01-15T00:00:00.000Z)"
      [] value = "\"2021-06-01T00:00:00.000Z\"" ->
            "Date(2021-06-01T00:00:00.000Z)"
      [] OTHER -> "Date(NaN)"

\* DateTime.__serialize: value.toISOString() for a Date, which throws
\* RangeError on an invalid one; any other value as it is.
SerializeThrows(value) == value = "Date(NaN)"

DateTime_serialize(value) ==
    CASE value = "Date(2020-01-15T00:00:00.000Z)" ->
            "\"2020-01-15T00:00:00.000Z\""
      [] value = "Date(2021-06-01T00:00:00.000Z)" ->
            "\"2021-06-01T00:00:00.000Z\""
      [] OTHER -> value

RangeError == RawError(<<"Invalid time value">>)

\* The executor coerces the input object: DateTime fields are parsed.
CoerceInput(coll, input) ==
    [f \in DOMAIN input |->
        IF f \in DateFields(coll) THEN DateTime_parseValue(input[f])
        ELSE input[f]]

\* The executor completes a returned record: DateTime fields are
\* serialized. (createdAt and updatedAt stay clock readings: their ISO text
\* is one-to-one with the reading.)
CompleteRecord(coll, record) ==
    IF \E f \in DOMAIN record \cap DateFields(coll) :
           SerializeThrows(record[f])
    THEN Failed(RangeError)
    ELSE Succeeded([f \in DOMAIN record |->
                      IF f \in DateFields(coll)
                      THEN DateTime_serialize(record[f]) ELSE record[f]])

\* toGraphQL: _id leaves, id (its hex string) comes.
toGraphQL(doc) ==
    [f \in (DOMAIN doc \ {"_id"}) \cup {"id"} |->
        IF f = "id" THEN ToHexString(doc["_id"]) ELSE doc[f]]

\* ---- the repository functions ----

\* What a repository call did: the error it threw, or the value it returned
\* (an empty sequence for null), and the collection afterwards.
Threw(error, docs) ==
    [threw |-> <<error>>, value |-> <<>>, docs |-> docs]
Returned(value, docs) ==
    [threw |-> <<>>, value |-> value, docs |-> docs]

DocsWithId(docs, oid) == {d \in docs : d["_id"] = oid}

findById(docs, id) ==
    IF ~ObjectIdIsValid(id) THEN Threw(BSONError, docs)
    ELSE LET found == DocsWithId(docs, ParseObjectId(id)) IN
         IF found = {} THEN Returned(<<>>, docs)
         ELSE Returned(<<CHOOSE d \in found : TRUE>>, docs)

createDroppingFalsy(docs, data, now, insertedId) ==
    LET kept == {f \in DOMAIN data : data[f] \notin FalsyValues}
        document == ("createdAt" :> now) @@ ("updatedAt" :> now)
                    @@ [f \in kept |-> data[f]]
        inserted == ("_id" :> insertedId) @@ document
    IN  Returned(<<inserted>>, docs \cup {inserted})

create(docs, data, now, insertedId) ==
    LET document == ("createdAt" :> now) @@ ("updatedAt" :> now) @@ data
        inserted == ("_id" :> insertedId) @@ document
    IN  Returned(<<inserted>>, docs \cup {inserted})

updateReturningBefore(docs, id, data, now) ==
    IF ~ObjectIdIsValid(id) THEN Threw(BSONError, docs)
    ELSE LET oid == ParseObjectId(id)
             found == DocsWithId(docs, oid)
             updateData == ("updatedAt" :> now) @@ data
         IN  IF found = {}
             THEN Returned(<<>>, docs \cup {("_id" :> oid) @@ updateData})
             ELSE LET before == CHOOSE d \in found : TRUE
                      after == updateData @@ before
                  IN  Returned(<<before>>, (docs \ {before}) \cup {after})

updateUpserting(docs, id, data, now) ==
    LET oid == ParseObjectId(id)
        found == DocsWithId(docs, oid)
        updateData == ("updatedAt" :> now) @@ data
        after == IF found = {} THEN ("_id" :> oid) @@ updateData
                 ELSE updateData @@ (CHOOSE d \in found : TRUE)
    IN  Returned(<<after>>, (docs \ found) \cup {after})

updateKeepingStamp(docs, id, data, now) ==
    LET found == DocsWithId(docs, ParseObjectId(id)) IN
    IF found = {} THEN Returned(<<>>, docs)
    ELSE LET before == CHOOSE d \in found : TRUE
             after == data @@ before
         IN  Returned(<<after>>, (docs \ {before}) \cup {after})

\* update: findOneAndUpdate({_id}, {$set: {...data, updatedAt}},
\* {returnDocument: "after"})
update(docs, id, data, now) ==
    IF ~ObjectIdIsValid(id) THEN Threw(BSONError, docs)
    ELSE LET found == DocsWithId(docs, ParseObjectId(id))
             updateData == ("updatedAt" :> now) @@ data
         IN  IF found = {} THEN Returned(<<>>, docs)
             ELSE LET before == CHOOSE d \in found : TRUE
                      after == updateData @@ before
                  IN  Returned(<<after>>, (docs \ {before}) \cup {after})

deleteByIdKeeping(docs, id) ==
    Returned(<<DocsWithId(docs, ParseObjectId(id)) # {}>>, docs)

\* deleteById: deleteOne({_id}), deletedCount === 1
deleteById(docs, id) ==
    IF ~ObjectIdIsValid(id) THEN Threw(BSONError, docs)
    ELSE LET found == DocsWithId(docs, ParseObjectId(id)) IN
         Returned(<<Cardinality(found) = 1>>, docs \ found)

\* ---- caller inputs ----

\* A complete input: every required field, and the optional fields `opt`.
FullInput(coll, v, opt) ==
    LET checks == FieldChecks(coll)
        required == {checks[i][1] : i \in 1..Len(checks)}
        kindOf(f) == (CHOOSE i \in 1..Len(checks) : checks[i][1] = f)
        valueOf(f) ==
            IF f \in DateFields(coll)
            THEN (IF v = "v1" THEN "\"2020-01-15\""
                  ELSE "\"2021-06-01T00:00:00.000Z\"")
            ELSE IF f \in opt THEN "\"" \o v \o "\""
            ELSE CASE checks[kindOf(f)][2] = "truthy" -> "\"" \o v \o "\""
                   [] checks[kindOf(f)][2] = "array" ->
                         IF v = "v1" THEN "[]" ELSE "[\"v2\"]"
                   [] f = "featured" ->
                         IF v = "v1" THEN "false" ELSE "true"
                   [] OTHER -> IF v = "v1" THEN "0" ELSE "7"
    IN  [f \in required \cup opt |-> valueOf(f)]

Without(input, fields) == [f \in DOMAIN input \ fields |-> input[f]]

\* v1 comes without optional fields, v2 with one where the kind has any.
ValidInputs(coll) ==
    { FullInput(coll, "v1", {}),
      FullInput(coll, "v2",
                OptionalFields(coll) \cap {"industry", "date"}) }

\* Inputs with required fields left out or empty.
InvalidInputs(coll) ==
    LET checks == FieldChecks(coll)
        full == FullInput(coll, "v2", {})
    IN  { Without(full, {checks[1][1], checks[4][1]}),
          [full EXCEPT ![checks[2][1]] = "\"\""] }

\* The ObjectId the driver generates for the n-th insert.
GeneratedObjectId(n) == 9 + n

\* Identifier strings callers send: those of the ObjectIds the store may
\* generate and one more, the first of them in upper case, and malformed
\* ones.
RECURSIVE Repeat(_, _)
Repeat(c, n) == IF n = 0 THEN <<>> ELSE <<c>> \o Repeat(c, n - 1)

UpperCaseId == Repeat("0", IdLen - 1) \o <<"A">>

WellFormedCallerIds ==
    {ToHexString(GeneratedObjectId(n)) : n \in 1..(MaxCreates + 1)}
        \cup {UpperCaseId}

MalformedCallerIds ==
    { Repeat("0", IdLen - 1), Repeat("0", IdLen - 1) \o <<"g">> }

CallerIds == WellFormedCallerIds \cup MalformedCallerIds

\* ---- the resolvers ----

NoCall == [called |-> FALSE, threw |-> <<>>, value |-> <<>>]
Called(r) == [called |-> TRUE, threw |-> r.threw, value |-> r.value]

NoResp ==
    [op |-> "none", coll |-> "experiences", id |-> <<>>, at |-> 0,
     input |-> <<>>, before |-> <<>>, repo |-> NoCall,
     outcome |-> NoOutcome]

\* The document with this identifier string before the operation, if any.
Before(coll, id) ==
    IF ObjectIdIsValid(id)
    THEN LET found == DocsWithId(store[coll], ParseObjectId(id)) IN
         IF found = {} THEN <<>> ELSE <<CHOOSE d \in found : TRUE>>
    ELSE <<>>

\* What the caller gets for the record a resolver returns.
Completed(coll, record) == CompleteRecord(coll, toGraphQL(record))

\* A nullable record field: null, or the completed record in a sequence.
CompletedOrNull(coll, value) ==
    IF value = <<>> THEN Succeeded(<<>>)
    ELSE LET c == Completed(coll, value[1]) IN
         IF c.status = "ok" THEN Succeeded(c.result) ELSE c

\* Query.experience / skill / project / education: the value returned (an
\* empty sequence for null) or the error thrown.
QueryEntity(docs, coll, id) ==
    LET idErr == validateObjectId(id, IdEntityName(coll)) IN
    IF idErr # <<>> THEN [repo |-> NoCall, outcome |-> Failed(idErr[1])]
    ELSE LET r == findById(docs, id) IN
         IF r.threw # <<>>
         THEN [repo |-> Called(r), outcome |-> Failed(r.threw[1])]
         ELSE [repo |-> Called(r),
               outcome |-> CompletedOrNull(coll, r.value)]

GetEntity ==
    \E coll \in Collections, id \in CallerIds :
        LET q == QueryEntity(store[coll], coll, id) IN
        /\ resp' = [op |-> "get", coll |-> coll, id |-> id, at |-> clock,
                    input |-> <<>>,
                    before |-> Before(coll, id), repo |-> q.repo,
                    outcome |-> q.outcome]
        /\ UNCHANGED <<auth, conn, upserts, store, clock, nextOid, errVars, genVars>>

\* Mutation.createExperience / createSkill / createProject / createEducation
\* called with `input`.
CreateWith(coll, input) ==
    LET args     == CoerceInput(coll, input)
        inputErr == validateEntityInput(coll, args)
    IN
    IF inputErr # <<>>
    THEN /\ resp' = [op |-> "create", coll |-> coll, id |-> <<>>, at |-> clock,
                     input |-> <<input>>, before |-> <<>>,
                     repo |-> NoCall, outcome |-> Failed(inputErr[1])]
         /\ UNCHANGED <<auth, conn, upserts, store, clock, nextOid, errVars, genVars>>
    ELSE /\ nextOid < MaxCreates
         /\ LET r == create(store[coll], args, clock,
                             GeneratedObjectId(nextOid + 1)) IN
            /\ store' = [store EXCEPT ![coll] = r.docs]
            /\ resp' = [op |-> "create", coll |-> coll, id |-> <<>>, at |-> clock,
                        input |-> <<input>>, before |-> <<>>,
                        repo |-> Called(r),
                        outcome |-> Completed(coll, r.value[1])]
         /\ nextOid' = nextOid + 1
         /\ UNCHANGED <<auth, conn, upserts, clock, errVars, genVars>>

CreateEntity ==
    \E coll \in Collections :
      \E input \in ValidInputs(coll) \cup InvalidInputs(coll) :
        CreateWith(coll, input)

\* Every way of sending, leaving out or emptying the required fields: a
\* complete input with the fields of `absent` left out and those of `empty`
\* sent as the empty string.
RequiredFieldInputs(coll) ==
    LET checks == FieldChecks(coll)
        full   == FullInput(coll, "v2", {})
        texts  == {checks[i][1] : i \in {j \in 1..Len(checks) :
                                            checks[j][2] = "truthy"}}
    IN  { [f \in DOMAIN full \ absent |->
              IF f \in empty THEN "\"\"" ELSE full[f]] :
          absent \in SUBSET DOMAIN full, empty \in SUBSET texts }

\* The first create request a fresh store receives.
CreateRequest ==
    /\ resp = NoResp
    /\ \E coll \in Collections :
         \E input \in RequiredFieldInputs(coll) : CreateWith(coll, input)

\* Mutation.updateExperience / updateSkill / updateProject / updateEducation
UpdateEntity ==
    \E coll \in Collections, id \in CallerIds :
      \E input \in ValidInputs(coll) \cup InvalidInputs(coll) :
        LET args     == CoerceInput(coll, input)
            idErr    == validateObjectId(id, IdEntityName(coll))
            inputErr == validateEntityInput(coll, args)
            r        == update(store[coll], id, args, clock)
            request  == [op |-> "update", coll |-> coll, id |-> id, at |-> clock,
                         input |-> <<input>>, before |-> Before(coll, id)]
        IN
        /\ UNCHANGED <<auth, conn, upserts, clock, nextOid, errVars, genVars>>
        /\ IF idErr # <<>> \/ inputErr # <<>>
           THEN /\ resp' = request @@
                      [repo |-> NoCall,
                       outcome |-> Failed(IF idErr # <<>> THEN idErr[1]
                                          ELSE inputErr[1])]
                /\ store' = store
           ELSE /\ store' = [store EXCEPT ![coll] = r.docs]
                /\ resp' = request @@
                      [repo |-> Called(r),
                       outcome |->
                          IF r.threw # <<>> THEN Failed(r.threw[1])
                          ELSE IF r.value = <<>>
                          THEN Failed(NotFoundGraphQLError(
                                          NotFoundEntityName(coll), IdText(id)))
                          ELSE Completed(coll, r.value[1])]

\* Mutation.deleteExperience / deleteSkill / deleteProject / deleteEducation
DeleteEntity ==
    \E coll \in Collections, id \in CallerIds :
        LET idErr   == validateObjectId(id, IdEntityName(coll))
            r       == deleteById(store[coll], id)
            request == [op |-> "delete", coll |-> coll, id |-> id, at |-> clock,
                        input |-> <<>>, before |-> Before(coll, id)]
        IN
        /\ UNCHANGED <<auth, conn, upserts, clock, nextOid, errVars, genVars>>
        /\ IF idErr # <<>>
           THEN /\ resp' = request @@
                      [repo |-> NoCall, outcome |-> Failed(idErr[1])]
                /\ store' = store
           ELSE /\ store' = [store EXCEPT ![coll] = r.docs]
                /\ resp' = request @@
                      [repo |-> Called(r),
                       outcome |->
                          IF r.threw # <<>> THEN Failed(r.threw[1])
                          ELSE IF ~r.value[1]
                          THEN Failed(NotFoundGraphQLError(
                                          NotFoundEntityName(coll), IdText(id)))
                          ELSE Succeeded([success |-> TRUE, id |-> id])]

\* Time passes.
Tick ==
    /\ clock < MaxClock
    /\ clock' = clock + 1
    /\ UNCHANGED <<auth, conn, upserts, store, nextOid, resp, errVars, genVars>>

StoreNext ==
    \/ GetEntity
    \/ CreateEntity
    \/ UpdateEntity
    \/ DeleteEntity
    \/ Tick

-----------------------------------------------------------------------------
(* Lists: the filter builders, SORT_ORDERS and findAll                      *)

\* Where the content of a value matters (sorting, matching), a string is
\* written as the sequence of its characters, a string list as a sequence
\* of strings, a boolean and a number as themselves, and a Date as before.

\* UTF-16 code units of the characters used.
CodeOf(c) ==
    CASE c = "(" -> 40  [] c = "." -> 46
      [] c = "A" -> 65  [] c = "B" -> 66  [] c = "C" -> 67
      [] c = "a" -> 97  [] c = "b" -> 98  [] c = "c" -> 99

\* Case folding of the "i" option.
FoldCase(c) ==
    CASE c = "A" -> "a" [] c = "B" -> "b" [] c = "C" -> "c" [] OTHER -> c

\* Date.prototype.getTime, in days.
GetTime(date) ==
    CASE date = "Date(2020-01-15T00:00:00.000Z)" -> 18276
      [] date = "Date(2021-06-01T00:00:00.000Z)" -> 18779

\* The store's order of two strings: by code unit, a proper prefix first.
RECURSIVE StringLess(_, _)
StringLess(a, b) ==
    IF b = <<>> THEN FALSE
    ELSE IF a = <<>> THEN TRUE
    ELSE IF CodeOf(a[1]) # CodeOf(b[1]) THEN CodeOf(a[1]) < CodeOf(b[1])
    ELSE StringLess(Tail(a), Tail(b))

\* $regex with $options "i", for patterns of literal characters and ".": the
\* pattern matches somewhere in the text. A pattern with an unclosed "(" is
\* not a regular expression.
RegexValid(pattern) == \A i \in 1..Len(pattern) : pattern[i] # "("

RegexMatch(pattern, text) ==
    \E start \in 0..(Len(text) - Len(pattern)) :
        \A j \in 1..Len(pattern) :
            \/ pattern[j] = "."
            \/ FoldCase(pattern[j]) = FoldCase(text[start + j])

RegexError == RawError(<<"Regular expression is invalid: missing closing parenthesis">>)

SORT_ORDERS(coll) ==
    CASE coll = "experiences" -> [field |-> "startDate", direction |-> -1]
      [] coll = "skills"      -> [field |-> "name", direction |-> 1]
      [] coll = "projects"    -> [field |-> "date", direction |-> -1]
      [] coll = "educations"  -> [field |-> "graduationYear", direction |-> -1]

Regex(value) == [op |-> "regex", value |-> value]
Equals(value) == [op |-> "eq", value |-> value]

\* filter.f as a condition: `if (filter.f)` for strings, which an empty
\* string fails, and `filter.f !== undefined` for featured.
Supplied(filter, f) ==
    /\ f \in DOMAIN filter
    /\ f = "featured" \/ filter[f] # <<>>

\* A query from the criteria of `regexes` (as $regex) and of `exacts` (by
\* equality, the criterion filter[c] on the field exacts[c]).
BuildQuery(filter, regexes, exacts) ==
    LET fields == {f \in regexes : Supplied(filter, f)}
                  \cup {exacts[c] : c \in {d \in DOMAIN exacts :
                                             Supplied(filter, d)}}
        criterion(f) == CHOOSE c \in DOMAIN exacts : exacts[c] = f
    IN  [f \in fields |->
            IF f \in regexes /\ Supplied(filter, f) THEN Regex(filter[f])
            ELSE Equals(filter[criterion(f)])]

buildExperienceFilter(filter) ==
    BuildQuery(filter, {"company", "title", "industry"},
               [roleType |-> "roleTypes", technology |-> "technologies",
                featured |-> "featured"])

buildSkillFilter(filter) ==
    BuildQuery(filter, {"name"},
               [roleRelevance |-> "roleRelevance", level |-> "level",
                tag |-> "tags"])

buildProjectFilter(filter) ==
    BuildQuery(filter, {"name"},
               [type |-> "type", technology |-> "technologies",
                roleType |-> "roleTypes", featured |-> "featured"])

buildEducationFilter(filter) ==
    BuildQuery(filter, {"institution", "degree", "field"},
               [x \in {} |-> x])

buildFilter(coll, filter) ==
    CASE coll = "experiences" -> buildExperienceFilter(filter)
      [] coll = "skills"      -> buildSkillFilter(filter)
      [] coll = "projects"    -> buildProjectFilter(filter)
      [] coll = "educations"  -> buildEducationFilter(filter)

ListFields == {"roleTypes", "technologies", "tags", "keywords",
               "responsibilities", "achievements", "relevantCoursework"}

\* The store's match of a document against a query.
Matches(doc, query) ==
    \A f \in DOMAIN query :
        /\ f \in DOMAIN doc
        /\ IF query[f].op = "regex" THEN RegexMatch(query[f].value, doc[f])
           ELSE IF f \in ListFields
           THEN \E i \in 1..Len(doc[f]) : doc[f][i] = query[f].value
           ELSE doc[f] = query[f].value

\* The store's ascending order on the sort field: a document without the
\* field before every document with it.
KeyLess(field, a, b) ==
    IF field \notin DOMAIN b THEN FALSE
    ELSE IF field \notin DOMAIN a THEN TRUE
    ELSE CASE field = "name" -> StringLess(a[field], b[field])
           [] field = "graduationYear" -> a[field] < b[field]
           [] OTHER -> GetTime(a[field]) < GetTime(b[field])

\* cursor.sort(sortOrder): documents with equal keys in any order.
InSortOrder(docs, sortOrder) ==
    \A i, j \in 1..Len(docs) :
        i < j => IF sortOrder.direction = 1
                 THEN ~KeyLess(sortOrder.field, docs[j], docs[i])
                 ELSE ~KeyLess(sortOrder.field, docs[i], docs[j])

Orderings(docs) ==
    {o \in [1..Cardinality(docs) -> docs] :
        \A i, j \in 1..Cardinality(docs) : i # j => o[i] # o[j]}

\* findAll: the results collection.find(filter).sort(sortOrder).toArray() may
\* give, or the error the store answers.
findAll(docs, query, sortOrder) ==
    IF \E f \in DOMAIN query :
           query[f].op = "regex" /\ ~RegexValid(query[f].value)
    THEN {Threw(RegexError, docs)}
    ELSE {Returned(o, docs) :
            o \in {p \in Orderings({d \in docs : Matches(d, query)}) :
                     InSortOrder(p, sortOrder)}}

\* ---- stored records and filters of the list requests ----

Stamped(oid, data) ==
    ("_id" :> oid) @@ ("createdAt" :> 0) @@ ("updatedAt" :> 0) @@ data

\* Records as create stores them, three of each kind.
StoredPool(coll) ==
    CASE coll = "experiences" ->
        << [company |-> <<"A", "b">>, location |-> <<"a">>,
            title |-> <<"C", "a">>, industry |-> <<"b">>,
            startDate |-> "Date(2020-01-15T00:00:00.000Z)",
            roleTypes |-> << <<"a">> >>, responsibilities |-> <<>>,
            achievements |-> <<>>,
            technologies |-> << <<"a">>, <<"b">> >>, featured |-> TRUE],
           [company |-> <<"a", "B">>, location |-> <<"a">>,
            title |-> <<"c">>,
            startDate |-> "Date(2021-06-01T00:00:00.000Z)",
            roleTypes |-> << <<"b">> >>, responsibilities |-> <<>>,
            achievements |-> <<>>,
            technologies |-> << <<"B">> >>, featured |-> FALSE],
           [company |-> <<"C">>, location |-> <<"a">>,
            title |-> <<"a", "b">>, industry |-> <<"B", "c">>,
            startDate |-> "Date(2020-01-15T00:00:00.000Z)",
            roleTypes |-> << <<"a">>, <<"b">> >>, responsibilities |-> <<>>,
            achievements |-> <<>>,
            technologies |-> <<>>, featured |-> TRUE] >>
      [] coll = "skills" ->
        << [name |-> <<"B">>, roleRelevance |-> <<"a">>, level |-> <<"A">>,
            rating |-> 5, yearsOfExperience |-> 1,
            tags |-> << <<"a">> >>, keywords |-> << <<"c">> >>],
           [name |-> <<"a">>, roleRelevance |-> <<"a", "b">>,
            level |-> <<"a">>, rating |-> 0, yearsOfExperience |-> 0,
            tags |-> << <<"b">> >>, keywords |-> << <<"a">> >>],
           [name |-> <<"b">>, roleRelevance |-> <<"a">>, level |-> <<"b">>,
            rating |-> 9, yearsOfExperience |-> 7,
            tags |-> << <<"a">>, <<"b">> >>, keywords |-> <<>>] >>
      [] coll = "projects" ->
        << [name |-> <<"A", "b">>, type |-> <<"a">>,
            date |-> "Date(2020-01-15T00:00:00.000Z)", featured |-> TRUE,
            overview |-> <<"a">>, technologies |-> << <<"a">> >>,
            keywords |-> << <<"a">> >>, roleTypes |-> << <<"a">> >>],
           [name |-> <<"b">>, type |-> <<"A">>, featured |-> FALSE,
            overview |-> <<"a">>, technologies |-> << <<"b">> >>,
            keywords |-> << <<"b">> >>, roleTypes |-> << <<"b">> >>],
           [name |-> <<"c", "a">>, type |-> <<"a", "b">>,
            date |-> "Date(2021-06-01T00:00:00.000Z)", featured |-> FALSE,
            overview |-> <<"a">>, technologies |-> << <<"a">>, <<"b">> >>,
            keywords |-> <<>>, roleTypes |-> << <<"a">> >>] >>
      [] coll = "educations" ->
        << [institution |-> <<"A", "b">>, degree |-> <<"B">>,
            field |-> <<"c">>, graduationYear |-> 2010,
            relevantCoursework |-> <<>>],
           [institution |-> <<"b">>, degree |-> <<"a", "b">>,
            field |-> <<"C">>, graduationYear |-> 2015,
            relevantCoursework |-> <<>>],
           [institution |-> <<"c", "a">>, degree |-> <<"c">>,
            field |-> <<"a", "b">>, graduationYear |-> 2010,
            relevantCoursework |-> << <<"a">> >>] >>

\* The store holding, of every kind, the pool's records numbered in `kept`.
StoredRecords(kept) ==
    [coll \in Collections |->
        {Stamped(GeneratedObjectId(4 * i), StoredPool(coll)[i]) :
            i \in kept \cap (1..Len(StoredPool(coll)))}]

NoFilter == [x \in {} |-> x]

\* Filters callers send.
Filters(coll) ==
    CASE coll = "experiences" ->
        { NoFilter, [company |-> <<"a">>], [company |-> <<"a", "b">>],
          [company |-> <<>>], [company |-> <<".", "b">>],
          [company |-> <<"(">>], [title |-> <<"c">>], [industry |-> <<"b">>],
          [roleType |-> <<"a">>], [technology |-> <<"b">>],
          [featured |-> TRUE], [featured |-> FALSE],
          [title |-> <<"a">>, featured |-> TRUE] }
      [] coll = "skills" ->
        { NoFilter, [name |-> <<"b">>], [roleRelevance |-> <<"a">>],
          [level |-> <<"a">>], [tag |-> <<"a">>], [keyword |-> <<"a">>],
          [name |-> <<"b">>, tag |-> <<"b">>] }
      [] coll = "projects" ->
        { NoFilter, [name |-> <<"a">>], [type |-> <<"a">>],
          [technology |-> <<"a">>], [keyword |-> <<"b">>],
          [roleType |-> <<"b">>], [featured |-> FALSE],
          [type |-> <<"a">>, featured |-> TRUE] }
      [] coll = "educations" ->
        { NoFilter, [institution |-> <<"b">>], [degree |-> <<"B">>],
          [field |-> <<"c">>], [degree |-> <<".">>],
          [institution |-> <<"a">>, field |-> <<"c">>] }

\* records.map(toGraphQL), completed by the executor.
RECURSIVE CompletedList(_, _)
CompletedList(coll, records) ==
    IF records = <<>> THEN Succeeded(<<>>)
    ELSE LET first == Completed(coll, records[1])
             rest  == CompletedList(coll, Tail(records))
         IN  IF first.status # "ok" THEN first
             ELSE IF rest.status # "ok" THEN rest
             ELSE Succeeded(first.result \o rest.result[1])

\* Query.experiences / skills / projects / educations
ListEntities ==
    \E coll \in Collections :
      \E filter \in Filters(coll) :
        \E r \in findAll(store[coll], buildFilter(coll, filter),
                         SORT_ORDERS(coll)) :
            /\ resp' = [op |-> "list", coll |-> coll, id |-> <<>>,
                        at |-> clock, input |-> <<filter>>, before |-> <<>>,
                        repo |-> Called(r),
                        outcome |-> IF r.threw # <<>> THEN Failed(r.threw[1])
                                    ELSE CompletedList(coll, r.value)]
            /\ UNCHANGED <<auth, conn, upserts, store, clock, nextOid, errVars, genVars>>

-----------------------------------------------------------------------------
(* Profile: the singleton's repository functions and resolvers *)

PROFILES == "careerprofiles"

\* ProfileInput values callers send. The schema makes every top-level field
\* and the nested name, email, headline, summary and lists non-null; a
\* string may be empty.
ProfileInputs ==
    { [personalInfo |-> [name |-> "n1", email |-> "e1", phone |-> "p1"],
       positioning |-> [headline |-> "h1", summary |-> "s1",
                        targetRoles |-> <<"r1">>, targetIndustries |-> <<>>],
       valuePropositions |-> <<"v1">>, professionalMission |-> "m1",
       uniqueSellingPoints |-> <<>>],
      [personalInfo |-> [name |-> "n2", email |-> "e2"],
       positioning |-> [headline |-> "h2", summary |-> "s2",
                        targetRoles |-> <<>>, targetIndustries |-> <<"i2">>],
       valuePropositions |-> <<>>, professionalMission |-> "m2",
       uniqueSellingPoints |-> <<"u2">>],
      [personalInfo |-> [name |-> "n1", email |-> "e1"],
       positioning |-> [headline |-> "h1", summary |-> "s1",
                        targetRoles |-> <<"r1">>, targetIndustries |-> <<>>],
       valuePropositions |-> <<"v1">>, professionalMission |-> "m1",
       uniqueSellingPoints |-> <<>>],
      [personalInfo |-> [name |-> "", email |-> "e1", phone |-> "p1"],
       positioning |-> [headline |-> "h1", summary |-> "s1",
                        targetRoles |-> <<"r1">>, targetIndustries |-> <<>>],
       valuePropositions |-> <<"v1">>, professionalMission |-> "",
       uniqueSellingPoints |-> <<>>],
      [personalInfo |-> [name |-> "n2", email |-> "e2"],
       positioning |-> [headline |-> "h2", summary |-> "",
                        targetRoles |-> <<>>, targetIndustries |-> <<"i2">>],
       valuePropositions |-> <<>>, professionalMission |-> "m2",
       uniqueSellingPoints |-> <<"u2">>] }

\* if (!x) push(name)
PushIfFalsy(present, value, name) ==
    IF ~present \/ value = "" THEN <<name>> ELSE <<>>

PushIfNotArray(input, name) ==
    IF name \notin DOMAIN input THEN <<name>> ELSE <<>>

ProfileMissingFields(input) ==
    (IF "personalInfo" \notin DOMAIN input THEN <<"personalInfo">>
     ELSE PushIfFalsy(TRUE, input.personalInfo.name, "personalInfo.name")
          \o PushIfFalsy(TRUE, input.personalInfo.email, "personalInfo.email"))
    \o (IF "positioning" \notin DOMAIN input THEN <<"positioning">>
        ELSE PushIfFalsy(TRUE, input.positioning.headline,
                         "positioning.headline")
             \o PushIfFalsy(TRUE, input.positioning.summary,
                            "positioning.summary"))
    \o PushIfNotArray(input, "valuePropositions")
    \o PushIfFalsy("professionalMission" \in DOMAIN input,
                   input.professionalMission, "professionalMission")
    \o PushIfNotArray(input, "uniqueSellingPoints")

\* validateProfileInput: the error it throws, if any.
validateProfileInput(input) ==
    IF ProfileMissingFields(input) # <<>>
    THEN <<MissingFieldsError("Missing required fields: ",
                              ProfileMissingFields(input))>>
    ELSE <<>>

\* getProfile: findOne({}) returns a document of the collection, null when
\* there is none.
getProfile(docs) ==
    IF docs = {} THEN {Returned(<<>>, docs)}
    ELSE {Returned(<<d>>, docs) : d \in docs}

\* The store's findOneAndUpdate({}, {$set}, {upsert: true}) first looks for
\* a document the filter matches: the identifier of one, or none.
UpsertMatch(docs) ==
    IF docs = {} THEN {<<>>} ELSE {<<d["_id"]>> : d \in docs}

upsertWriteKeepingStamp(docs, matched, updateData, insertedId) ==
    LET data == [f \in DOMAIN updateData \ {"updatedAt"} |-> updateData[f]]
    IN  IF matched = <<>>
        THEN LET inserted == ("_id" :> insertedId) @@ updateData
             IN  Returned(<<inserted>>, docs \cup {inserted})
        ELSE LET before == CHOOSE d \in docs : d["_id"] = matched[1]
                 after  == data @@ before
             IN  Returned(<<after>>, (docs \ {before}) \cup {after})

\* ... and then sets the fields on the matched document, or inserts a new
\* document holding them when none matched; returnDocument: "after".
UpsertWrite(docs, matched, updateData, insertedId) ==
    IF matched = <<>>
    THEN LET inserted == ("_id" :> insertedId) @@ updateData
         IN  Returned(<<inserted>>, docs \cup {inserted})
    ELSE LET before == CHOOSE d \in docs : d["_id"] = matched[1]
             after  == updateData @@ before
         IN  Returned(<<after>>, (docs \ {before}) \cup {after})

\* updateData = {...data, updatedAt: new Date()}
UpdateData(data, now) == ("updatedAt" :> now) @@ data

\* updateProfile, no other request in between.
updateProfile(docs, data, now, insertedId) ==
    {UpsertWrite(docs, matched, UpdateData(data, now), insertedId) :
        matched \in UpsertMatch(docs)}

NoUpserts == [c \in 1..MaxUpserts |-> [pc |-> "idle"]]

\* The profile collection when the server starts: empty, or holding the
\* profile an earlier run upserted.
StoredProfiles ==
    { {},
      {UpsertWrite({}, <<>>,
                   UpdateData(CHOOSE input \in ProfileInputs :
                                  /\ validateProfileInput(input) = <<>>
                                  /\ "phone" \in DOMAIN input.personalInfo,
                              0),
                   GeneratedObjectId(0)).value[1]} }

ProfileResp(operation, input, before, at, repo, outcome) ==
    [op |-> operation, coll |-> PROFILES, id |-> <<>>, at |-> at,
     input |-> input, before |-> before, repo |-> repo, outcome |-> outcome]

\* Query.profile
GetProfile ==
    \E r \in getProfile(store[PROFILES]) :
        /\ resp' = ProfileResp("getProfile", <<>>, <<>>, clock, Called(r),
                               CompletedOrNull(PROFILES, r.value))
        /\ UNCHANGED <<auth, conn, upserts, store, clock, nextOid, errVars, genVars>>

\* The documents among docs with the matched identifier, as a sequence.
MatchedDocument(docs, matched) ==
    IF matched = <<>> THEN <<>>
    ELSE <<CHOOSE d \in docs : d["_id"] = matched[1]>>

\* Mutation.updateProfile, no other request in between.
UpdateProfile ==
    \E input \in ProfileInputs :
        IF validateProfileInput(input) # <<>>
        THEN /\ resp' = ProfileResp("updateProfile", <<input>>, <<>>, clock,
                                    NoCall,
                                    Failed(validateProfileInput(input)[1]))
             /\ UNCHANGED <<auth, conn, upserts, store, clock, nextOid, errVars, genVars>>
        ELSE \E matched \in UpsertMatch(store[PROFILES]) :
               LET r == UpsertWrite(store[PROFILES], matched,
                                    UpdateData(input, clock),
                                    GeneratedObjectId(nextOid + 1))
               IN  /\ store' = [store EXCEPT ![PROFILES] = r.docs]
                   /\ nextOid' = IF matched = <<>> THEN nextOid + 1
                                 ELSE nextOid
                   /\ resp' = ProfileResp("updateProfile", <<input>>,
                                 MatchedDocument(store[PROFILES], matched),
                                 clock, Called(r),
                                 Completed(PROFILES, r.value[1]))
                   /\ UNCHANGED <<auth, conn, upserts, clock, errVars, genVars>>

\* Mutation.updateProfile of request c up to the store's match: the input is
\* validated, updateData is built and findOneAndUpdate is sent.
StartUpsert(c) ==
    /\ upserts[c].pc = "idle"
    /\ \E input \in ProfileInputs :
        IF validateProfileInput(input) # <<>>
        THEN /\ resp' = ProfileResp("updateProfile", <<input>>, <<>>, clock,
                                    NoCall,
                                    Failed(validateProfileInput(input)[1]))
             /\ UNCHANGED <<auth, conn, upserts, store, clock, nextOid, errVars, genVars>>
        ELSE \E matched \in UpsertMatch(store[PROFILES]) :
               /\ upserts' = [upserts EXCEPT ![c] =
                                [pc |-> "matched", input |-> input,
                                 now |-> clock, matched |-> matched]]
               /\ UNCHANGED <<auth, conn, store, clock, nextOid, resp, errVars, genVars>>

\* ... and from the store's write to the resolver's return.
FinishUpsert(c) ==
    /\ upserts[c].pc = "matched"
    /\ LET u == upserts[c]
           r == UpsertWrite(store[PROFILES], u.matched,
                            UpdateData(u.input, u.now),
                            GeneratedObjectId(nextOid + 1))
       IN  /\ store' = [store EXCEPT ![PROFILES] = r.docs]
           /\ nextOid' = IF u.matched = <<>> THEN nextOid + 1 ELSE nextOid
           /\ resp' = ProfileResp("updateProfile", <<u.input>>,
                         MatchedDocument(store[PROFILES], u.matched),
                         u.now, Called(r), Completed(PROFILES, r.value[1]))
           /\ upserts' = [upserts EXCEPT ![c] = [pc |-> "idle"]]
           /\ UNCHANGED <<auth, conn, clock, errVars, genVars>>

ProfileNext == GetProfile \/ UpdateProfile \/ Tick

UpsertsNext == \E c \in 1..MaxUpserts : StartUpsert(c) \/ FinishUpsert(c)

-----------------------------------------------------------------------------
(* The error mappers applied to failures of any description *)

\* The substrings the mappers look for, and a text holding none of them.
DescriptionTokens ==
    {"API key", "rate limit", "timeout", "connection", "duplicate key",
     "ECONNRESET"}

\* Failures caught around a provider or store call: an Error with a
\* description of up to MaxTokens tokens, or a thrown value that is no Error.
CaughtFailures ==
    {[cls |-> cls, name |-> cls, message |-> text] :
        cls \in {"Error", "Value"},
        text \in UNION {[1..n -> DescriptionTokens] : n \in 0..MaxTokens}}

MapperResp(mapper, error, thrown) ==
    [op |-> mapper, coll |-> "none", id |-> <<>>, at |-> 0,
     input |-> <<error>>, before |-> <<>>, repo |-> NoCall,
     outcome |-> Failed(thrown)]

\* catch (error) { handleAnthropicError(error) }
MapProviderFailure ==
    \E error \in CaughtFailures :
        /\ resp' = MapperResp("handleAnthropicError", error,
                              handleAnthropicError(error))
        /\ log' = handleAnthropicErrorLog(error)
        /\ UNCHANGED <<auth, conn, upserts, execErrors, response, store, clock, nextOid,
                       genVars>>

\* handleDatabaseError(error)
MapStoreFailure ==
    \E error \in CaughtFailures :
        /\ resp' = MapperResp("handleDatabaseError", error,
                              handleDatabaseError(error))
        /\ log' = handleDatabaseErrorLog(error)
        /\ UNCHANGED <<auth, conn, upserts, execErrors, response, store, clock, nextOid,
                       genVars>>

MappersNext == MapProviderFailure \/ MapStoreFailure

-----------------------------------------------------------------------------
(* The store connection: connectToDatabase and closeConnection *)

\* Clients are numbered in the order of their construction; 0 is null. A Db
\* handle is written as the number of the client it belongs to.
IdleCall == [pc |-> "idle", client |-> 0, handle |-> 0, connected |-> FALSE]

NoConn ==
    [cachedClient |-> 0, cachedDb |-> 0, uriSet |-> TRUE, constructed |-> 0,
     status |-> [k \in 1..MaxClients |-> "none"],
     shutdown |-> FALSE, closing |-> 0,
     calls |-> [c \in 1..MaxCalls |-> IdleCall]]

ConnectBeginAlwaysNew(cachedClient, cachedDb, uriSet, newClient) ==
    IF ~uriSet THEN [pc |-> "threw", constructs |-> FALSE,
                     cachedClient |-> cachedClient, cachedDb |-> cachedDb]
    ELSE [pc |-> "awaiting", constructs |-> TRUE,
          cachedClient |-> newClient, cachedDb |-> cachedDb]

\* connectToDatabase from its entry to its first await, return or throw.
ConnectBegin(cachedClient, cachedDb, uriSet, newClient) ==
    IF cachedDb # 0
    THEN [pc |-> "returned", constructs |-> FALSE,
          cachedClient |-> cachedClient, cachedDb |-> cachedDb]
    ELSE IF ~uriSet
    THEN [pc |-> "threw", constructs |-> FALSE,
          cachedClient |-> cachedClient, cachedDb |-> cachedDb]
    ELSE IF cachedClient = 0
    THEN [pc |-> "awaiting", constructs |-> TRUE,
          cachedClient |-> newClient, cachedDb |-> cachedDb]
    ELSE [pc |-> "returned", constructs |-> FALSE,
          cachedClient |-> cachedClient, cachedDb |-> cachedClient]

\* Call c enters connectToDatabase.
Acquire(c) ==
    /\ conn.calls[c].pc = "idle"
    /\ LET b == ConnectBegin(conn.cachedClient, conn.cachedDb, conn.uriSet,
                             conn.constructed + 1)
       IN  /\ b.constructs => conn.constructed < MaxClients
           /\ conn' =
                [conn EXCEPT
                   !.cachedClient = b.cachedClient,
                   !.cachedDb = b.cachedDb,
                   !.constructed = IF b.constructs THEN @ + 1 ELSE @,
                   !.status = IF b.constructs
                              THEN [@ EXCEPT ![b.cachedClient] = "connecting"]
                              ELSE @,
                   !.calls[c] =
                      [pc |-> b.pc,
                       client |-> IF b.constructs THEN b.cachedClient ELSE 0,
                       handle |-> IF b.pc = "returned" THEN b.cachedDb ELSE 0,
                       connected |->
                          /\ b.pc = "returned"
                          /\ conn.status[b.cachedDb] = "connected"]]
    /\ UNCHANGED <<auth, upserts, errVars, genVars, storeVars>>

\* await cachedClient.connect() resolves: cachedDb = cachedClient.db() and
\* the handle is returned; with cachedClient null by then, db() throws and
\* the catch block resets the cache.
ConnectSucceeds(c) ==
    /\ conn.calls[c].pc = "awaiting"
    /\ conn.status[conn.calls[c].client] = "connecting"
    /\ LET k == conn.calls[c].client IN
       conn' =
         IF conn.cachedClient # 0
         THEN [conn EXCEPT
                 !.status[k] = "connected",
                 !.cachedDb = conn.cachedClient,
                 !.calls[c] = [pc |-> "returned", client |-> k,
                               handle |-> conn.cachedClient,
                               connected |->
                                  \/ conn.cachedClient = k
                                  \/ conn.status[conn.cachedClient] =
                                        "connected"]]
         ELSE [conn EXCEPT
                 !.status[k] = "connected",
                 !.cachedClient = 0,
                 !.cachedDb = 0,
                 !.calls[c] = [pc |-> "threw", client |-> k, handle |-> 0,
                               connected |-> FALSE]]
    /\ UNCHANGED <<auth, upserts, errVars, genVars, storeVars>>

\* await cachedClient.connect() rejects: the catch block resets the cache and
\* throws.
ConnectFails(c) ==
    /\ conn.calls[c].pc = "awaiting"
    /\ conn.status[conn.calls[c].client] = "connecting"
    /\ conn' = [conn EXCEPT
                  !.status[conn.calls[c].client] = "failed",
                  !.cachedClient = 0,
                  !.cachedDb = 0,
                  !.calls[c] = [pc |-> "threw", client |-> @.client,
                                handle |-> 0, connected |-> FALSE]]
    /\ UNCHANGED <<auth, upserts, errVars, genVars, storeVars>>

\* The operation that called connectToDatabase goes on and ends.
CallEnds(c) ==
    /\ conn.calls[c].pc \in {"returned", "threw"}
    /\ conn' = [conn EXCEPT !.calls[c] = IdleCall]
    /\ UNCHANGED <<auth, upserts, errVars, genVars, storeVars>>

\* closeConnection up to await cachedClient.close()
CloseBegins ==
    /\ ~conn.shutdown
    /\ conn.cachedClient # 0
    /\ conn' = [conn EXCEPT !.shutdown = TRUE,
                            !.closing = conn.cachedClient]
    /\ UNCHANGED <<auth, upserts, errVars, genVars, storeVars>>

\* ... and after it: cachedClient = null, cachedDb = null.
CloseEnds ==
    /\ conn.closing # 0
    /\ conn' = [conn EXCEPT !.closing = 0,
                            !.cachedClient = 0,
                            !.cachedDb = 0]
    /\ UNCHANGED <<auth, upserts, errVars, genVars, storeVars>>

ConnNext ==
    \/ \E c \in 1..MaxCalls :
          Acquire(c) \/ ConnectSucceeds(c) \/ ConnectFails(c) \/ CallEnds(c)
    \/ CloseBegins
    \/ CloseEnds

-----------------------------------------------------------------------------
(* Request authentication: the preHandler hook in front of the resolvers *)

\* A header or environment value is <<>> when undefined and <<text>> when set.
Falsy(value) == value = <<>> \/ value = <<"">>

\* process.env.API_ACCESS_KEY
ConfiguredKeys == { <<>>, <<"">>, <<"k1">> }

\* request.headers["x-api-key"]
ApiKeyHeaders == { <<>>, <<"">>, <<"k1">>, <<"K1">>, <<"k2">> }

NoReply == [status |-> 0, message |-> "", code |-> ""]

NoAuth ==
    [expectedKey |-> <<"k1">>, handled |-> 0, header |-> <<>>,
     passed |-> FALSE, reply |-> NoReply,
     resolverCalls |-> 0, storeCalls |-> 0, modelCalls |-> 0]

AuthReply(status, message, code, logged) ==
    [replied |-> TRUE,
     reply |-> [status |-> status, message |-> message, code |-> code],
     logged |-> logged]

AuthPass == [replied |-> FALSE, reply |-> NoReply, logged |-> <<>>]

authMiddlewareAnyKey(apiKey, expectedKey) ==
    IF Falsy(expectedKey)
    THEN AuthReply(500, "Server configuration error", INTERNAL_SERVER_ERROR,
                   <<>>)
    ELSE IF Falsy(apiKey)
    THEN AuthReply(401, "API key is required", UNAUTHENTICATED, <<>>)
    ELSE AuthPass

authMiddleware(apiKey, expectedKey) ==
    IF Falsy(expectedKey)
    THEN AuthReply(500, "Server configuration error", INTERNAL_SERVER_ERROR,
            <<LogEntry(RawError(
                 <<"API_ACCESS_KEY environment variable is not set">>),
                 "auth-middleware")>>)
    ELSE IF Falsy(apiKey)
    THEN AuthReply(401, "API key is required", UNAUTHENTICATED, <<>>)
    ELSE IF apiKey # expectedKey
    THEN AuthReply(401, "Invalid API key", UNAUTHENTICATED,
            <<LogEntry(RawError(<<"Invalid API key provided">>),
                       "auth-middleware")>>)
    ELSE AuthPass

\* What the GraphQL operation of a request goes on to use.
OperationKinds == {"entity", "generation"}

\* One HTTP request to the GraphQL route: the preHandler hook, and the
\* execution of the operation when the hook did not reply.
HandleRequest ==
    /\ auth.handled < MaxRequests
    /\ \E apiKey \in ApiKeyHeaders, kind \in OperationKinds :
          LET r == authMiddleware(apiKey, auth.expectedKey) IN
          /\ auth' =
               [auth EXCEPT
                  !.handled = @ + 1,
                  !.header = apiKey,
                  !.passed = ~r.replied,
                  !.reply = r.reply,
                  !.resolverCalls = IF r.replied THEN @ ELSE @ + 1,
                  !.storeCalls = IF r.replied THEN @ ELSE @ + 1,
                  !.modelCalls =
                     IF r.replied \/ kind # "generation" THEN @ ELSE @ + 1]
          /\ log' = log \o r.logged
    /\ UNCHANGED <<conn, upserts, execErrors, response, genVars, storeVars>>

-----------------------------------------------------------------------------
(* Context rendering: buildCareerDataContext and its formatters *)

\* A rendered text is a sequence of lines, a line a sequence of tokens; a
\* template's "\n" ends a line, an empty interpolation leaves an empty line.
BlankLine == <<>>

\* array.map(...).join("\n"): the empty array joins to "", one empty line.
JoinLines(lines) == IF lines = <<>> THEN <<BlankLine>> ELSE lines

\* array.map(...).join("\n\n") over blocks of lines.
RECURSIVE JoinBlocks(_)
JoinBlocks(blocks) ==
    IF blocks = <<>> THEN <<BlankLine>>
    ELSE IF Len(blocks) = 1 THEN blocks[1]
    ELSE blocks[1] \o <<BlankLine>> \o JoinBlocks(Tail(blocks))

ShortMonths ==
    <<"Jan", "Feb", "Mar", "Apr", "May", "Jun",
      "Jul", "Aug", "Sep", "Oct", "Nov", "Dec">>

\* formatDate(date): "Present" for undefined, else short month and year.
formatDate(date) ==
    IF date = <<>> THEN <<"Present">>
    ELSE <<ShortMonths[date[1].month], " ", ToString(date[1].year)>>

Bullet(text) == <<"  - ", text>>

AchievementLine(a) ==
    <<"  - ", a.description>>
    \o (IF a.metrics # <<>> THEN <<" (", a.metrics[1], ")">> ELSE <<>>)

ExperienceBlock(exp) ==
    << <<"### ", exp.title, " at ", exp.company>>,
       <<"**Location:** ", exp.location>>,
       <<"**Duration:** ">> \o formatDate(<<exp.startDate>>) \o <<" - ">>
          \o formatDate(exp.endDate),
       IF exp.industry # <<>>
       THEN <<"**Industry:** ", exp.industry[1]>> ELSE BlankLine,
       <<"**Role Types:** ">> \o Join(exp.roleTypes),
       <<"**Technologies:** ">> \o Join(exp.technologies),
       IF exp.featured THEN <<"**Featured Position**">> ELSE BlankLine,
       BlankLine,
       <<"**Responsibilities:**">> >>
    \o JoinLines([i \in 1..Len(exp.responsibilities) |->
                    Bullet(exp.responsibilities[i])])
    \o << BlankLine, <<"**Achievements:**">> >>
    \o JoinLines([i \in 1..Len(exp.achievements) |->
                    AchievementLine(exp.achievements[i])])

formatExperiencesOmittingEmpty(experiences) ==
    JoinBlocks([i \in 1..Len(experiences) |-> ExperienceBlock(experiences[i])])

formatExperiences(experiences) ==
    IF Len(experiences) = 0 THEN << <<"No work experience recorded.">> >>
    ELSE JoinBlocks([i \in 1..Len(experiences) |->
                       ExperienceBlock(experiences[i])])

\* Property names every object literal inherits from Object.prototype.
ObjectPrototypeKeys ==
    { <<"constructor">>, <<"toString">>, <<"valueOf">>, <<"hasOwnProperty">>,
      <<"__proto__">> }

DecimalDigits == <<"0", "1", "2", "3", "4", "5", "6", "7", "8", "9">>

IsDecimalDigit(c) == \E d \in 1..10 : DecimalDigits[d] = c

RECURSIVE DecimalValue(_)
DecimalValue(key) ==
    IF key = <<>> THEN 0
    ELSE 10 * DecimalValue(SubSeq(key, 1, Len(key) - 1))
         + (CHOOSE d \in 1..10 : DecimalDigits[d] = key[Len(key)]) - 1

\* 2^32 - 1, the first integer that is not an array index, digit by digit.
ArrayIndexLimit == <<"4", "2", "9", "4", "9", "6", "7", "2", "9", "5">>

\* a < b for two digit strings of equal length
RECURSIVE DigitsLess(_, _)
DigitsLess(a, b) ==
    IF a = <<>> THEN FALSE
    ELSE IF a[1] # b[1] THEN DecimalValue(<<a[1]>>) < DecimalValue(<<b[1]>>)
    ELSE DigitsLess(Tail(a), Tail(b))

\* A property key that is a canonical array index: such keys are enumerated
\* first, in ascending numeric order.
IsArrayIndex(key) ==
    /\ key # <<>>
    /\ \A i \in 1..Len(key) : IsDecimalDigit(key[i])
    /\ Len(key) > 1 => key[1] # "0"
    /\ \/ Len(key) < Len(ArrayIndexLimit)
       \/ Len(key) = Len(ArrayIndexLimit) /\ DigitsLess(key, ArrayIndexLimit)

OwnKeyAt(acc, key) == {i \in 1..Len(acc) : acc[i].key = key}

TypeErrorNotAFunction == RawError(<<"acc[key].push is not a function">>)

\* One step of the reduce in formatSkills; acc holds the own properties of
\* the accumulator in insertion order, or is "threw".
GroupSkill(acc, skill) ==
    LET key == IF skill.roleRelevance = <<>> THEN <<"Other">>
               ELSE skill.roleRelevance
    IN  IF OwnKeyAt(acc, key) # {}
        THEN LET i == CHOOSE j \in OwnKeyAt(acc, key) : TRUE
             IN  [acc EXCEPT ![i].list = Append(@, skill)]
        ELSE IF key \in ObjectPrototypeKeys
        THEN <<[key |-> <<"threw">>, list |-> <<>>]>>
        ELSE Append(acc, [key |-> key, list |-> <<skill>>])

ReduceThrew(acc) == acc # <<>> /\ acc[1].key = <<"threw">> /\ acc[1].list = <<>>

RECURSIVE GroupSkills(_, _)
GroupSkills(acc, skills) ==
    IF skills = <<>> \/ ReduceThrew(acc) THEN acc
    ELSE GroupSkills(GroupSkill(acc, skills[1]), Tail(skills))

RECURSIVE AscendingIndexKeys(_)
AscendingIndexKeys(entries) ==
    IF entries = {} THEN <<>>
    ELSE LET least == CHOOSE e \in entries :
                         \A f \in entries :
                            DecimalValue(e.key) <= DecimalValue(f.key)
         IN  <<least>> \o AscendingIndexKeys(entries \ {least})

InsertionOrderEntries(acc) == SelectSeq(acc, LAMBDA e : TRUE)

\* Object.entries(grouped) in insertion order, whatever the keys look like.
ObjectEntriesInsertionOrder(acc) == InsertionOrderEntries(acc)

\* Object.entries(grouped): array-index keys ascending, then the other own
\* keys in insertion order.
ObjectEntries(acc) ==
    AscendingIndexKeys({acc[i] : i \in {j \in 1..Len(acc) :
                                           IsArrayIndex(acc[j].key)}})
    \o SelectSeq(acc, LAMBDA e : ~IsArrayIndex(e.key))

SkillLine(skill) ==
    <<"- **", skill.name, "** (", skill.level, ", ",
      ToString(skill.yearsOfExperience), " years) - Rating: ",
      ToString(skill.rating), "/10">>

SkillGroupBlock(entry) ==
    << <<"### ">> \o entry.key >>
    \o JoinLines([i \in 1..Len(entry.list) |-> SkillLine(entry.list[i])])

\* formatSkills(skills): the lines, or the TypeError thrown by the reduce.
formatSkills(skills) ==
    IF Len(skills) = 0 THEN Succeeded(<< <<"No skills recorded.">> >>)
    ELSE LET grouped == GroupSkills(<<>>, skills)
             entries == ObjectEntries(grouped)
         IN  IF ReduceThrew(grouped) THEN Failed(TypeErrorNotAFunction)
             ELSE Succeeded(JoinBlocks([i \in 1..Len(entries) |->
                                          SkillGroupBlock(entries[i])]))

Labelled(label, value) ==
    IF value # <<>> THEN <<label, value[1]>> ELSE BlankLine

ProjectBlock(proj) ==
    << <<"### ", proj.name>>,
       <<"**Type:** ", proj.type>>,
       IF proj.date # <<>>
       THEN <<"**Date:** ">> \o formatDate(proj.date) ELSE BlankLine,
       IF proj.featured THEN <<"**Featured Project**">> ELSE BlankLine,
       BlankLine,
       <<"**Overview:** ", proj.overview>>,
       Labelled("**Challenge:** ", proj.challenge),
       Labelled("**Approach:** ", proj.approach),
       Labelled("**Outcome:** ", proj.outcome),
       Labelled("**Impact:** ", proj.impact),
       BlankLine,
       <<"**Technologies:** ">> \o Join(proj.technologies),
       <<"**Keywords:** ">> \o Join(proj.keywords) >>

formatProjects(projects) ==
    IF Len(projects) = 0 THEN << <<"No projects recorded.">> >>
    ELSE JoinBlocks([i \in 1..Len(projects) |-> ProjectBlock(projects[i])])

EducationBlock(edu) ==
    << <<"### ", edu.degree, " in ", edu.field>>,
       <<"**Institution:** ", edu.institution>>,
       <<"**Graduation Year:** ", ToString(edu.graduationYear)>> >>
    \o (IF Len(edu.relevantCoursework) > 0
        THEN << <<"**Relevant Coursework:** ">>
                  \o Join(edu.relevantCoursework) >>
        ELSE <<>>)

formatEducation(educations) ==
    IF Len(educations) = 0 THEN << <<"No education recorded.">> >>
    ELSE JoinBlocks([i \in 1..Len(educations) |->
                       EducationBlock(educations[i])])

DashLine(text) == <<"- ", text>>

formatProfile(profile) ==
    IF profile = <<>> THEN << <<"No profile information available.">> >>
    ELSE LET p == profile[1] IN
         << <<"## Personal Information">>,
            <<"**Name:** ", p.personalInfo.name>>,
            <<"**Email:** ", p.personalInfo.email>>,
            Labelled("**Phone:** ", p.personalInfo.phone),
            Labelled("**Location:** ", p.personalInfo.location),
            Labelled("**LinkedIn:** ", p.personalInfo.linkedin),
            Labelled("**GitHub:** ", p.personalInfo.github),
            Labelled("**Website:** ", p.personalInfo.website),
            BlankLine,
            <<"## Professional Positioning">>,
            <<"**Headline:** ", p.positioning.headline>>,
            <<"**Summary:** ", p.positioning.summary>>,
            BlankLine,
            <<"## Value Propositions">> >>
         \o JoinLines([i \in 1..Len(p.valuePropositions) |->
                         DashLine(p.valuePropositions[i])])
         \o << BlankLine,
               <<"## Professional Mission">>,
               <<p.professionalMission>>,
               BlankLine,
               <<"## Unique Selling Points">> >>
         \o JoinLines([i \in 1..Len(p.uniqueSellingPoints) |->
                         DashLine(p.uniqueSellingPoints[i])])

\* The "\n\n---\n\n" between two sections of the template.
SectionDivider == <<BlankLine, <<"---">>, BlankLine>>

\* buildCareerDataContext(careerData): the text, or what formatSkills threw.
buildCareerDataContext(careerData) ==
    LET skills == formatSkills(careerData.skills) IN
    IF skills.status = "error" THEN skills
    ELSE Succeeded(
           << <<"# Career Data">>, BlankLine >>
           \o formatProfile(careerData.profile)
           \o SectionDivider
           \o << <<"# Work Experience">> >>
           \o formatExperiences(careerData.experiences)
           \o SectionDivider
           \o << <<"# Skills">> >>
           \o skills.result[1]
           \o SectionDivider
           \o << <<"# Projects">> >>
           \o formatProjects(careerData.projects)
           \o SectionDivider
           \o << <<"# Education">> >>
           \o formatEducation(careerData.educations))

\* Sample records of the five collections.
SampleProfile ==
    [personalInfo |-> [name |-> "Ada", email |-> "ada@example.org",
                       phone |-> <<>>, location |-> <<"London">>,
                       linkedin |-> <<>>, github |-> <<"ada">>,
                       website |-> <<>>],
     positioning |-> [headline |-> "Engineer", summary |-> "Builds engines"],
     valuePropositions |-> <<"Rigour">>,
     professionalMission |-> "Compute",
     uniqueSellingPoints |-> <<>>]

SampleExperience(title, ended) ==
    [title |-> title, company |-> "Acme", location |-> "Remote",
     startDate |-> [month |-> 3, year |-> 2020],
     endDate |-> IF ended THEN <<[month |-> 11, year |-> 2022]>> ELSE <<>>,
     industry |-> IF ended THEN <<"Software">> ELSE <<>>,
     roleTypes |-> <<"engineering", "writing">>,
     technologies |-> <<"TypeScript">>,
     featured |-> ~ended,
     responsibilities |-> IF ended THEN <<>> ELSE <<"Own the API">>,
     achievements |->
        <<[description |-> "Cut latency",
           metrics |-> IF ended THEN <<"40%">> ELSE <<>>]>>]

ExperienceLists ==
    { <<>>, <<SampleExperience("Engineer", FALSE)>>,
      <<SampleExperience("Engineer", FALSE),
        SampleExperience("Writer", TRUE)>> }

SampleSkill(name, roleRelevance) ==
    [name |-> name, roleRelevance |-> roleRelevance, level |-> "Expert",
     yearsOfExperience |-> 5, rating |-> 8]

\* Role-relevance values: words, values that look like numbers, and the name
\* of an inherited property.
SkillPool ==
    { SampleSkill("TLA+", <<"engineering">>),
      SampleSkill("Go", <<"engineering">>),
      SampleSkill("Editing", <<"1", "0">>),
      SampleSkill("Docs", <<"2">>),
      SampleSkill("Design", <<"constructor">>) }

RECURSIVE ListsOver(_, _)
ListsOver(pool, n) ==
    IF n = 0 THEN {<<>>}
    ELSE LET shorter == ListsOver(pool, n - 1)
         IN  shorter \cup {Append(l, x) : l \in shorter, x \in pool}

SkillLists == ListsOver(SkillPool, MaxSkills)

SampleProject ==
    [name |-> "Checker", type |-> "tool", date |-> <<>>, featured |-> TRUE,
     overview |-> "Checks models", challenge |-> <<"State explosion">>,
     approach |-> <<>>, outcome |-> <<>>, impact |-> <<>>,
     technologies |-> <<"Java">>, keywords |-> <<>>]

SampleEducation ==
    [degree |-> "BSc", field |-> "Mathematics", institution |-> "UCL",
     graduationYear |-> 2015, relevantCoursework |-> <<"Logic", "Algebra">>]

\* The composites fetchCareerData can hand to the renderer.
Composites ==
    [profile : {<<>>, <<SampleProfile>>},
     experiences : ExperienceLists,
     skills : SkillLists,
     projects : {<<>>, <<SampleProject>>},
     educations : {<<>>, <<SampleEducation>>}]

\* buildCareerDataContext applied to one composite, once per behaviour.
BuildContext ==
    \E careerData \in Composites :
        /\ resp.op = "none"
        /\ resp' = [op |-> "buildCareerDataContext", coll |-> "none",
                    id |-> <<>>, at |-> 0, input |-> <<careerData>>,
                    before |-> <<>>, repo |-> NoCall,
                    outcome |-> buildCareerDataContext(careerData)]
        /\ UNCHANGED <<auth, conn, upserts, errVars, genVars, store, clock,
                       nextOid>>

-----------------------------------------------------------------------------
(* Specifications *)

ErrInit ==
    /\ execErrors = <<>>
    /\ response = NoResponse
    /\ log = <<>>
    /\ op = IdleOp
    /\ client = "null"
    /\ apiKeySet = TRUE
    /\ requests = 0
    /\ reads = 0
    /\ store = [coll \in Collections |-> {}]
    /\ clock = 0
    /\ nextOid = 0
    /\ resp = NoResp
    /\ upserts = NoUpserts
    /\ conn = NoConn
    /\ auth = NoAuth

StoreInit ==
    /\ execErrors = <<>>
    /\ response = NoResponse
    /\ log = <<>>
    /\ op = IdleOp
    /\ client = "null"
    /\ apiKeySet = TRUE
    /\ requests = 0
    /\ reads = 0
    /\ store = [coll \in Collections |-> {}]
    /\ clock = 0
    /\ nextOid = 0
    /\ resp = NoResp
    /\ upserts = NoUpserts
    /\ conn = NoConn
    /\ auth = NoAuth

GenInit ==
    /\ execErrors = <<>>
    /\ response = NoResponse
    /\ log = <<>>
    /\ op = IdleOp
    /\ client = "null"
    /\ apiKeySet \in BOOLEAN
    /\ requests = 0
    /\ reads = 0
    /\ store = [coll \in Collections |-> {}]
    /\ clock = 0
    /\ nextOid = 0
    /\ resp = NoResp
    /\ upserts = NoUpserts
    /\ conn = NoConn
    /\ auth = NoAuth

-----------------------------------------------------------------------------
(* SpecErr: failures raised, then rendered by the formatter;              *)
(* SpecGen: Generate / Revise operations, one at a time                    *)

ErrNext ==
    \/ InputRejected
    \/ EntityNotFound
    \/ ProviderFailed
    \/ ProviderNotConfigured
    \/ StoreFailed
    \/ StoreFailureMapped
    \/ ApiErrorRaised
    \/ QueryRejected
    \/ FormatResponse
    \/ NextRequest

SpecErr == ErrInit /\ [][ErrNext]_vars

ErrNextCoded == ErrNext \/ CodedErrorRaised

SpecErrCoded == ErrInit /\ [][ErrNextCoded]_vars

SpecGen == GenInit /\ [][GenNext]_vars

SpecStore == StoreInit /\ [][StoreNext]_vars

SpecCreate == StoreInit /\ [][CreateRequest]_vars

ListInit ==
    /\ execErrors = <<>>
    /\ response = NoResponse
    /\ log = <<>>
    /\ op = IdleOp
    /\ client = "null"
    /\ apiKeySet = TRUE
    /\ requests = 0
    /\ reads = 0
    /\ store \in {StoredRecords(kept) : kept \in SUBSET {1, 2, 3}}
    /\ clock = 0
    /\ nextOid = 0
    /\ resp = NoResp
    /\ upserts = NoUpserts
    /\ conn = NoConn
    /\ auth = NoAuth

MappersInit ==
    /\ execErrors = <<>>
    /\ response = NoResponse
    /\ log = <<>>
    /\ op = IdleOp
    /\ client = "null"
    /\ apiKeySet = TRUE
    /\ requests = 0
    /\ reads = 0
    /\ store = [coll \in Collections |-> {}]
    /\ clock = 0
    /\ nextOid = 0
    /\ resp = NoResp
    /\ upserts = NoUpserts
    /\ conn = NoConn
    /\ auth = NoAuth

SpecMappers == MappersInit /\ [][MappersNext]_vars

SpecContext == MappersInit /\ [][BuildContext]_vars

AuthInit ==
    /\ execErrors = <<>>
    /\ response = NoResponse
    /\ log = <<>>
    /\ op = IdleOp
    /\ client = "null"
    /\ apiKeySet = TRUE
    /\ requests = 0
    /\ reads = 0
    /\ store = [coll \in Collections |-> {}]
    /\ clock = 0
    /\ nextOid = 0
    /\ resp = NoResp
    /\ upserts = NoUpserts
    /\ conn = NoConn
    /\ auth \in {[NoAuth EXCEPT !.expectedKey = k] : k \in ConfiguredKeys}

SpecAuth == AuthInit /\ [][HandleRequest]_vars

ConnInit ==
    /\ execErrors = <<>>
    /\ response = NoResponse
    /\ log = <<>>
    /\ op = IdleOp
    /\ client = "null"
    /\ apiKeySet = TRUE
    /\ requests = 0
    /\ reads = 0
    /\ store = [coll \in Collections |-> {}]
    /\ clock = 0
    /\ nextOid = 0
    /\ resp = NoResp
    /\ upserts = NoUpserts
    /\ conn \in {[NoConn EXCEPT !.uriSet = u] : u \in BOOLEAN}
    /\ auth = NoAuth

SpecConn == ConnInit /\ [][ConnNext]_vars

SpecList == ListInit /\ [][ListEntities]_vars

ProfileInit ==
    /\ execErrors = <<>>
    /\ response = NoResponse
    /\ log = <<>>
    /\ op = IdleOp
    /\ client = "null"
    /\ apiKeySet = TRUE
    /\ requests = 0
    /\ reads = 0
    /\ store \in {[coll \in {PROFILES} |-> docs] : docs \in StoredProfiles}
    /\ clock = 0
    /\ nextOid = 0
    /\ resp = NoResp
    /\ upserts = NoUpserts
    /\ conn = NoConn
    /\ auth = NoAuth

SpecProfile == ProfileInit /\ [][ProfileNext]_vars

UpsertsInit ==
    /\ execErrors = <<>>
    /\ response = NoResponse
    /\ log = <<>>
    /\ op = IdleOp
    /\ client = "null"
    /\ apiKeySet = TRUE
    /\ requests = 0
    /\ reads = 0
    /\ store = [coll \in {PROFILES} |-> {}]
    /\ clock = 0
    /\ nextOid = 0
    /\ resp = NoResp
    /\ upserts = NoUpserts
    /\ conn = NoConn
    /\ auth = NoAuth

SpecUpserts == UpsertsInit /\ [][UpsertsNext]_vars

\* The failure as it was raised: the error a resolver threw, which the
\* executor may have located inside a GraphQLError.
RaisedFailure(i) == OriginalOrSelf(execErrors[i])

\* The taxonomy kind of a raised failure: its code, and internal for an
\* error that carries none.
KindOf(failure) ==
    CASE failure.cls = "APIError" -> failure.code
      [] failure.cls = "GraphQLError" /\ HasCode(failure) ->
            failure.extensions.code
      [] OTHER -> INTERNAL_SERVER_ERROR

SafeKinds == {BAD_USER_INPUT, NOT_FOUND}

Rendered == response # NoResponse

\* C1: a rendered validation or not-found failure shows its own message; a
\* rendered failure of any other kind shows the fixed generic message of its
\* kind and nothing but its code, so two failures of one such kind render to
\* the same result whatever their raw exception texts were.
C1_SanitizedRendering ==
    Rendered =>
        /\ \A i \in 1..Len(execErrors) :
              LET kind == KindOf(RaisedFailure(i)) IN
              /\ response.errors[i].extensions.code = kind
              /\ IF kind \in SafeKinds
                 THEN response.errors[i].message = RaisedFailure(i).message
                 ELSE response.errors[i].message = SAFE_ERROR_MESSAGES[kind]
        /\ \A i, j \in 1..Len(execErrors) :
              (/\ KindOf(RaisedFailure(i)) = KindOf(RaisedFailure(j))
               /\ KindOf(RaisedFailure(i)) \notin SafeKinds)
              => response.errors[i] = response.errors[j]

\* Two provider failures with different raw texts have been rendered in one
\* response.
C1_Witness ==
    /\ Rendered
    /\ Len(execErrors) = 2
    /\ KindOf(RaisedFailure(1)) = AI_SERVICE_ERROR
    /\ KindOf(RaisedFailure(2)) = AI_SERVICE_ERROR
    /\ RaisedFailure(1).original # RaisedFailure(2).original
    /\ RaisedFailure(1).message # RaisedFailure(2).message


\* C17: every rendered failure carries one kind, and the kind is one of the
\* six of the taxonomy, whatever was raised, errors that arrive with another
\* code included.
C17_AsStated_KindInClosedSet ==
    Rendered =>
        \A i \in 1..Len(response.errors) :
            /\ HasCode(response.errors[i])
            /\ response.errors[i].extensions.code \in ErrorCodes

\* The error connectToDatabase throws when the connection fails.
IsConnectFailure(failure) ==
    /\ failure.cls = "Error"
    /\ failure.message # <<>>
    /\ failure.message[1] = "Failed to connect to MongoDB: "

\* No token of the raised failure's text is in the rendered error i.
RawTextHidden(i) ==
    \A k \in 1..Len(RaisedFailure(i).message) :
        ~Includes(response.errors[i].message, RaisedFailure(i).message[k])

\* Some log entry holds the raised failure's text.
RawTextLogged(i) ==
    \E k \in 1..Len(log) :
        \/ log[k].errorMessage = RaisedFailure(i).message
        \/ log[k].originalError = <<RaisedFailure(i).message>>

\* C18: a store connection failure is rendered with kind database and the
\* generic database message; its original text is in the log and nowhere in
\* the rendered failure.
C18_AsStated_ConnectionFailureIsDatabaseKind ==
    Rendered =>
        \A i \in 1..Len(execErrors) :
            IsConnectFailure(RaisedFailure(i)) =>
                /\ response.errors[i].extensions.code = DATABASE_ERROR
                /\ response.errors[i].message =
                      SAFE_ERROR_MESSAGES[DATABASE_ERROR]
                /\ RawTextHidden(i)
                /\ RawTextLogged(i)

\* The log entries about raised failure i: those holding its message, as
\* the logged error's own or as its wrapped error's.
EntriesAbout(i) ==
    {k \in 1..Len(log) :
        \/ log[k].errorMessage = RaisedFailure(i).message
        \/ log[k].originalError = <<RaisedFailure(i).message>>
        \/ /\ RaisedFailure(i).cls = "APIError"
           /\ RaisedFailure(i).original # <<>>
           /\ log[k].errorMessage = RaisedFailure(i).original[1].message}

\* C19: when the failures of a request have been rendered, the log holds
\* exactly one entry for each of them, whatever its kind.
C19_AsStated_LoggedExactlyOnce ==
    Rendered =>
        /\ Len(log) = Len(execErrors)
        /\ \A i \in 1..Len(execErrors) : EntriesAbout(i) # {}

\* The kinds of the errors of the rendered response.
RenderedKinds ==
    {response.errors[i].extensions.code : i \in 1..Len(response.errors)}

\* C30: the status of a response with errors is 401 when one of them is an
\* authentication failure, else 404 when one is a not-found failure, else
\* 400 when one is a validation failure, whatever their order.
C30_StatusFromKinds ==
    Rendered =>
        /\ UNAUTHENTICATED \in RenderedKinds => response.statusCode = 401
        /\ (UNAUTHENTICATED \notin RenderedKinds
            /\ NOT_FOUND \in RenderedKinds) => response.statusCode = 404
        /\ (RenderedKinds \cap {UNAUTHENTICATED, NOT_FOUND} = {}
            /\ BAD_USER_INPUT \in RenderedKinds) => response.statusCode = 400

\* A response was rendered for a validation failure followed by a not-found
\* failure.
C30_Witness ==
    /\ Rendered
    /\ Len(response.errors) = 2
    /\ response.errors[1].extensions.code = BAD_USER_INPUT
    /\ response.errors[2].extensions.code = NOT_FOUND

\* A response was rendered for a not-found failure followed by an
\* authentication failure.
C30_WitnessAuthLast ==
    /\ Rendered
    /\ Len(response.errors) = 2
    /\ response.errors[1].extensions.code = NOT_FOUND
    /\ response.errors[2].extensions.code = UNAUTHENTICATED

\* The raised failure is a failure of the model provider or of the store:
\* what a mapper threw for it, or the store's exception itself.
IsExternalFailure(failure) ==
    \/ failure.cls = "Error"
    \/ /\ failure.cls = "APIError"
       /\ failure.code \in {AI_SERVICE_ERROR, DATABASE_ERROR}

\* C23: a failure of the model provider or of the store is rendered with
\* code INTERNAL_SERVER_ERROR in a response of status 500.
C23_AsStated_ExternalFailureIs500 ==
    Rendered =>
        \A i \in 1..Len(execErrors) :
            IsExternalFailure(RaisedFailure(i)) =>
                /\ response.errors[i].extensions.code = INTERNAL_SERVER_ERROR
                /\ response.statusCode = 500

-----------------------------------------------------------------------------
(* Claims about Generate and Revise (SpecGen) *)

\* What the caller receives for an error a resolver threw.
CallerSees(error) == formatGraphQLError(LocatedError(error))

\* Empty or made of whitespace only.
WhitespaceOnly(s) == \A i \in 1..Len(s) : s[i] \in Whitespace

PassedAggregation(o) == \A f \in Fetches : o.fetch[f] = "ok"

OpFailedWith(code) ==
    /\ op.pc = "done"
    /\ op.outcome.status = "error"
    /\ CallerSees(op.outcome.error[1]).extensions.code = code

MissingJobInfoFields(args) ==
    (IF WhitespaceOnly(args.jobInfo.description) THEN {"description"} ELSE {})
    \cup (IF WhitespaceOnly(args.jobInfo.jobType) THEN {"jobType"} ELSE {})

InvalidGenerationInput(mutation, args) ==
    \/ MissingJobInfoFields(args) # {}
    \/ IsRevise(mutation) /\ WhitespaceOnly(args.feedback)
    \/ IsAnswer(mutation) /\ WhitespaceOnly(args.question)

Range(seq) == {seq[i] : i \in 1..Len(seq)}

\* C3: an operation given an empty or whitespace-only description, job type,
\* feedback (Revise) or question (application answer) ends in a validation
\* failure that names every missing jobInfo field, having started no store
\* read and sent no request.
C3_InvalidInputRejected ==
    (op.pc # "idle" /\ InvalidGenerationInput(op.mutation, op.args)) =>
        /\ OpFailedWith(BAD_USER_INPUT)
        /\ MissingJobInfoFields(op.args) # {} =>
              Range(CallerSees(op.outcome.error[1]).extensions.missingFields)
                 = MissingJobInfoFields(op.args)
        /\ reads = 0
        /\ requests = 0
        /\ op.sent = <<>>
        /\ \A f \in Fetches : op.fetch[f] = "idle"

\* reviseAnswer was called with both jobInfo fields blank (one of them
\* whitespace-only) and a blank question.
C3_Witness ==
    /\ op.pc = "done"
    /\ op.mutation = "reviseAnswer"
    /\ MissingJobInfoFields(op.args) = {"description", "jobType"}
    /\ op.args.jobInfo.jobType # <<>>
    /\ op.args.question = <<>>

GenerateOf(mutation) ==
    CASE mutation = "reviseResume" -> "generateResume"
      [] mutation = "reviseCoverLetter" -> "generateCoverLetter"
      [] mutation = "reviseAnswer" -> "generateAnswer"

Placeholder(mutation) ==
    CASE mutation = "reviseResume" ->
            <<"I've created a resume based on the job description. Please provide feedback for revisions.">>
      [] mutation = "reviseCoverLetter" ->
            <<"I've created a cover letter based on the job description. Please provide feedback for revisions.">>

EndsWith(text, suffix) ==
    /\ Len(text) > Len(suffix)
    /\ SubSeq(text, Len(text) - Len(suffix) + 1, Len(text)) = suffix

\* C4: a Revise request carries exactly three turns, user / assistant / user:
\* the first is the user turn Generate builds for the same kind and jobInfo
\* with no additional context, the second the fixed placeholder (resume,
\* cover letter) or the caller's currentAnswer (application answer), the
\* third ends with the feedback.
C4_ReviseConversation ==
    (op.sent # <<>> /\ IsRevise(op.mutation)) =>
        LET m == op.sent[1].messages IN
        /\ Len(m) = 3
        /\ <<m[1].role, m[2].role, m[3].role>>
              = <<"user", "assistant", "user">>
        /\ m[1].content =
              GenerateUserMessage(
                  GenerateOf(op.mutation),
                  [op.args EXCEPT !.additionalContext = <<>>,
                                  !.currentAnswer = <<>>])
        /\ m[2].content = IF op.mutation = "reviseAnswer"
                          THEN op.args.currentAnswer
                          ELSE Placeholder(op.mutation)
        /\ EndsWith(m[3].content, op.args.feedback)

\* An answer revision with a current answer and a padded description has
\* been sent.
C4_Witness ==
    /\ op.sent # <<>>
    /\ op.mutation = "reviseAnswer"
    /\ op.args.currentAnswer # <<>>
    /\ op.args.jobInfo.description = <<" ", "Staff role", " ">>

\* C5: an operation past validation has started all five reads; it goes on to
\* the provider only when all five have succeeded; once one has failed the
\* operation has ended in a failure without sending anything.
C5_AllOrNothingAggregation ==
    /\ op.pc \in {"fetching", "aggregated", "calling"} =>
          reads = Cardinality(Fetches)
    /\ (op.pc \in {"aggregated", "calling"} \/ op.sent # <<>>) =>
          PassedAggregation(op)
    /\ (\E f \in Fetches : op.fetch[f] = "failed") =>
          /\ op.pc = "done"
          /\ op.outcome.status = "error"
          /\ requests = 0
          /\ op.sent = <<>>

\* Four reads succeeded and the fifth failed.
C5_Witness ==
    /\ op.pc = "done"
    /\ Cardinality({f \in Fetches : op.fetch[f] = "ok"}) = 4
    /\ Cardinality({f \in Fetches : op.fetch[f] = "failed"}) = 1

\* The operation ended with a result.
OpSucceeded == op.pc = "done" /\ op.outcome.status = "ok"

\* C20: the result of every successful Generate or Revise operation has
\* non-empty content and positive inputTokens and outputTokens.
C20_AsStated_NonEmptyContentPositiveUsage ==
    OpSucceeded =>
        /\ op.outcome.result[1].content # <<>>
        /\ op.outcome.result[1].usage.inputTokens > 0
        /\ op.outcome.result[1].usage.outputTokens > 0

\* The indices of the text blocks of a reply.
TextBlocks(reply) ==
    {i \in 1..Len(reply.content) : reply.content[i].type = "text"}

C24_WitnessNoText ==
    OpSucceeded /\ op.reply # <<>> /\ TextBlocks(op.reply[1]) = {}

-----------------------------------------------------------------------------
(* Claims about the entity store (SpecStore) *)

RespOk == resp.outcome.status = "ok"

RespFailedWith(code) ==
    /\ resp.outcome.status = "error"
    /\ CallerSees(resp.outcome.error[1]).extensions.code = code

\* What getById answers now for an identifier string of the last
\* operation's kind.
GetNow(id) == QueryEntity(store[resp.coll], resp.coll, id).outcome

Absent == Succeeded(<<>>)

\* The instant a date-time text denotes, in days since the epoch.
Instant(text) ==
    CASE text = "\"2020-01-15\"" -> 18276
      [] text = "\"2020-01-15T00:00:00.000Z\"" -> 18276
      [] text = "\"2021-06-01T00:00:00.000Z\"" -> 18779

\* The returned value of a field equals the supplied one: a date-time is
\* the same instant, returned in full ISO form; anything else is the same
\* text.
SameValue(coll, f, returned, supplied) ==
    IF f \in DateFields(coll)
    THEN /\ Instant(returned) = Instant(supplied)
         /\ returned \in {"\"2020-01-15T00:00:00.000Z\"",
                          "\"2021-06-01T00:00:00.000Z\""}
    ELSE returned = supplied

\* The store's identifier format: IdLen hexadecimal digits of either case.
WellFormedId(id) ==
    /\ Len(id) = IdLen
    /\ \A i \in 1..Len(id) : id[i] \in Range(HexLower) \cup Range(HexUpper)

\* C6: after a create with valid input, getById with the returned identifier
\* returns a record that is the one create returned, carries exactly the
\* caller's fields with the caller's values (the store function returns the
\* data it was given; a date-time reaches the caller as the same instant),
\* an identifier generated by the store, and createdAt equal to updatedAt.
C6_CreateThenGet ==
    (resp.op = "create" /\ RespOk) =>
        LET created == resp.outcome.result[1]
            input   == resp.input[1]
            got     == GetNow(created["id"])
        IN  /\ got.status = "ok"
            /\ got.result[1] = <<created>>
            /\ DOMAIN created = DOMAIN input \cup {"id", "createdAt", "updatedAt"}
            /\ \A f \in DOMAIN input :
                   /\ SameValue(resp.coll, f, created[f], input[f])
                   /\ resp.repo.value[1][f] = CoerceInput(resp.coll, input)[f]
            /\ created["id"] = ToHexString(GeneratedObjectId(nextOid))
            /\ created["createdAt"] = created["updatedAt"]
            /\ created["createdAt"] = resp.at

C6_Witness ==
    /\ resp.op = "create"
    /\ RespOk
    /\ resp.coll = "projects"
    /\ "date" \in DOMAIN resp.input[1]
    /\ resp.at = 1

\* The part of C7 about fields: the record read back after an update is the
\* one update returned, holds every supplied field with its new value, and
\* keeps its identifier, its createdAt and every field the input left out.
UpdatePersisted ==
    LET before  == Completed(resp.coll, resp.before[1]).result[1]
        input   == resp.input[1]
        updated == resp.outcome.result[1]
        got     == GetNow(resp.id)
    IN  /\ got.status = "ok"
        /\ got.result[1] = <<updated>>
        /\ \A f \in DOMAIN input :
               SameValue(resp.coll, f, updated[f], input[f])
        /\ updated["id"] = before["id"]
        /\ updated["createdAt"] = before["createdAt"]
        /\ \A f \in DOMAIN before \ (DOMAIN input \cup {"updatedAt"}) :
               updated[f] = before[f]
        /\ DOMAIN updated = DOMAIN before \cup DOMAIN input

\* C7 as stated: after an update of an existing record every supplied field
\* has its new value, the rest is untouched, and updatedAt is strictly later
\* than it was.
C7_AsStated_UpdatedAtAdvanced ==
    (resp.op = "update" /\ RespOk) =>
        /\ UpdatePersisted
        /\ resp.outcome.result[1]["updatedAt"] > resp.before[1]["updatedAt"]

\* C7: after an update of an existing record every supplied field has its
\* new value, identifier, createdAt and unsupplied fields are untouched, and
\* updatedAt is the clock reading at the update: never earlier than it was,
\* and later exactly when the clock has advanced since the previous write.
C7_UpdatePersists ==
    (resp.op = "update" /\ RespOk) =>
        /\ UpdatePersisted
        /\ resp.outcome.result[1]["updatedAt"] = resp.at
        /\ resp.outcome.result[1]["updatedAt"] >= resp.before[1]["updatedAt"]

\* An update that changed values, left an optional field out, and ran after
\* the clock had advanced.
C7_Witness ==
    /\ resp.op = "update"
    /\ RespOk
    /\ "industry" \in DOMAIN resp.before[1] \ DOMAIN resp.input[1]
    /\ resp.before[1]["company"] # resp.input[1]["company"]
    /\ resp.at > resp.before[1]["updatedAt"]

DeleteOfUnknown ==
    /\ resp.op = "delete"
    /\ WellFormedId(resp.id)
    /\ resp.before = <<>>

\* C8 as stated: deleting an identifier that matches no record returns
\* success = false and does not raise.
C8_AsStated_SecondDeleteReturnsFalse ==
    DeleteOfUnknown =>
        /\ RespOk
        /\ resp.outcome.result[1].success = FALSE

\* C8: deleting an existing record returns success = true with the
\* identifier as it was sent, and getById then returns absent; deleting an
\* identifier that matches no record (the same one again, or one never
\* created) makes the store function return false without raising, and the
\* caller receives a not-found failure.
C8_DeleteOutcome ==
    (resp.op = "delete" /\ WellFormedId(resp.id)) =>
        /\ GetNow(resp.id) = Absent
        /\ IF resp.before # <<>>
           THEN /\ RespOk
                /\ resp.outcome.result[1] = [success |-> TRUE, id |-> resp.id]
           ELSE /\ resp.repo = [called |-> TRUE, threw |-> <<>>,
                                value |-> <<FALSE>>]
                /\ RespFailedWith(NOT_FOUND)

\* The identifier of a record that was created and deleted is deleted again.
C8_Witness ==
    /\ DeleteOfUnknown
    /\ nextOid >= 1
    /\ ParseObjectId(resp.id) = GeneratedObjectId(1)

UpdateOfUnknown ==
    /\ resp.op = "update"
    /\ WellFormedId(resp.id)
    /\ validateEntityInput(resp.coll,
                           CoerceInput(resp.coll, resp.input[1])) = <<>>
    /\ resp.before = <<>>

\* C9 as stated: updating an identifier that matches no record returns
\* absent rather than raising.
C9_AsStated_UpdateUnknownReturnsAbsent ==
    UpdateOfUnknown => RespOk

\* C9: updating an identifier that matches no record makes the store
\* function return absent without raising and creates no record; the caller
\* receives a not-found failure.
C9_UpdateUnknown ==
    UpdateOfUnknown =>
        /\ resp.repo = [called |-> TRUE, threw |-> <<>>, value |-> <<>>]
        /\ GetNow(resp.id) = Absent
        /\ RespFailedWith(NOT_FOUND)

\* The update names a record of another kind, so a record with this
\* identifier exists but not in the collection updated.
C9_Witness ==
    /\ UpdateOfUnknown
    /\ \E coll \in Collections \ {resp.coll} :
           DocsWithId(store[coll], ParseObjectId(resp.id)) # {}

\* C10: getById, update and delete of every kind answer an identifier string
\* that is not in the store's identifier format with a validation failure,
\* and no store function is called.
C10_MalformedIdRejected ==
    (resp.op \in {"get", "update", "delete"} /\ ~WellFormedId(resp.id)) =>
        /\ RespFailedWith(BAD_USER_INPUT)
        /\ resp.outcome.error[1] = InvalidIdError(IdEntityName(resp.coll))
        /\ resp.repo = NoCall

C10_Witness ==
    /\ resp.op = "delete"
    /\ ~WellFormedId(resp.id)
    /\ Len(resp.id) = IdLen
    /\ store[resp.coll] # {}

\* The last entity operation ended in a validation failure, a not-found
\* failure or an absent result.
EndedRejected ==
    /\ resp.op \in {"create", "update", "delete"}
    /\ \/ RespFailedWith(BAD_USER_INPUT)
       \/ RespFailedWith(NOT_FOUND)
       \/ RespOk /\ resp.outcome.result[1] = <<>>

\* C28: a step in which a create, update or delete ends in a validation
\* failure, a not-found failure or an absent result leaves every stored
\* record of every kind as it was.
C28_RejectedOperationChangesNothing ==
    [][EndedRejected' => store' = store]_vars

\* An update named an unknown identifier while a record of its kind was
\* stored, and ended in a not-found failure.
C28_Witness ==
    /\ resp.op = "update"
    /\ RespFailedWith(NOT_FOUND)
    /\ store[resp.coll] # {}

-----------------------------------------------------------------------------
(* Claims about required fields (SpecCreate) *)

\* The fields the input types declare required.
RequiredFields(coll) ==
    CASE coll = "experiences" ->
            {"company", "location", "title", "startDate", "roleTypes",
             "responsibilities", "achievements", "technologies", "featured"}
      [] coll = "skills" ->
            {"name", "roleRelevance", "level", "rating", "yearsOfExperience",
             "tags", "keywords"}
      [] coll = "projects" ->
            {"name", "type", "featured", "overview", "technologies",
             "keywords", "roleTypes"}
      [] coll = "educations" ->
            {"institution", "degree", "field", "graduationYear",
             "relevantCoursework"}

\* The required fields an input leaves out or sends as the empty string.
MissingOrEmpty(coll, input) ==
    {f \in RequiredFields(coll) : f \notin DOMAIN input \/ input[f] = "\"\""}

\* C11: a create whose input leaves out or empties a non-empty set of
\* required fields is rejected with a validation failure whose field list
\* is exactly that set, and nothing is stored.
C11_AsStated_AllMissingFieldsNamed ==
    (resp.op = "create" /\ MissingOrEmpty(resp.coll, resp.input[1]) # {}) =>
        /\ RespFailedWith(BAD_USER_INPUT)
        /\ Range(resp.outcome.error[1].extensions.missingFields)
              = MissingOrEmpty(resp.coll, resp.input[1])
        /\ resp.repo = NoCall
        /\ store[resp.coll] = {}

-----------------------------------------------------------------------------
(* Claims about the list requests *)

Folded(text) == [i \in 1..Len(text) |-> FoldCase(text[i])]

ListOk == resp.op = "list" /\ RespOk

\* The records a successful list request returned, in order.
Listed == resp.outcome.result[1]

\* C12: whatever is stored and whatever the filter, a list comes ordered by
\* start date descending (Experience), by name ascending compared without
\* regard to case (Skill), by date descending (Project), by graduation year
\* descending (Education).
C12_AsStated_FixedOrders ==
    ListOk =>
        \A i, j \in 1..Len(Listed) :
            i < j =>
                LET a == Listed[i]
                    b == Listed[j]
                IN  CASE resp.coll = "experiences" ->
                            Instant(a.startDate) >= Instant(b.startDate)
                      [] resp.coll = "skills" ->
                            ~StringLess(Folded(b.name), Folded(a.name))
                      [] resp.coll = "projects" ->
                            ("date" \in DOMAIN a /\ "date" \in DOMAIN b) =>
                                Instant(a.date) >= Instant(b.date)
                      [] resp.coll = "educations" ->
                            a.graduationYear >= b.graduationYear

\* The record field a criterion is about.
CriterionField(f) ==
    CASE f = "roleType" -> "roleTypes"
      [] f = "technology" -> "technologies"
      [] f = "tag" -> "tags"
      [] f = "keyword" -> "keywords"
      [] OTHER -> f

\* `part` occurs in `text`, case ignored.
Contains(text, part) ==
    \E k \in 0..(Len(text) - Len(part)) :
        \A i \in 1..Len(part) : FoldCase(text[k + i]) = FoldCase(part[i])

TagListCriteria == {"roleType", "technology", "tag", "keyword"}

\* The record satisfies criterion f of the filter: a string criterion by
\* containing its text, a tag-list criterion by having it as a member, the
\* featured criterion by equality.
SatisfiesCriterion(record, filter, f) ==
    /\ CriterionField(f) \in DOMAIN record
    /\ IF f = "featured" THEN record[f] = filter[f]
       ELSE IF f \in TagListCriteria
       THEN filter[f] \in Range(record[CriterionField(f)])
       ELSE Contains(record[f], filter[f])

Satisfies(record, filter) ==
    \A f \in DOMAIN filter : SatisfiesCriterion(record, filter, f)

\* What a list request without filter returns for the stored records.
ListedWithoutFilter(coll) ==
    {Completed(coll, d).result[1] : d \in store[coll]}

\* C13: every record a list request returns satisfies every criterion of its
\* filter, the keyword criterion of the Skill and Project filters included,
\* and is among the records the request without filter returns.
C13_AsStated_EveryReturnedRecordSatisfies ==
    ListOk =>
        \A i \in 1..Len(Listed) :
            /\ Satisfies(Listed[i], resp.input[1])
            /\ Listed[i] \in ListedWithoutFilter(resp.coll)

\* C14: a list request returns exactly the stored records that satisfy all
\* the criteria of its filter: string criteria by containing the text with
\* case ignored, tag-list criteria (role type, technology, keyword, tag) by
\* membership, featured by equality; a criterion left out constrains nothing.
C14_AsStated_ExactlyTheSatisfyingRecords ==
    ListOk =>
        Range(Listed) = {r \in ListedWithoutFilter(resp.coll) :
                            Satisfies(r, resp.input[1])}

-----------------------------------------------------------------------------
(* Claims about the Profile *)

\* The record a successful Profile operation returned.
ProfileReturned == resp.outcome.result[1]

UpsertDone == resp.op = "updateProfile" /\ resp.repo.called

\* C15: reading the Profile succeeds with the stored profile, or with null
\* when none is stored; an upsert creates the profile when none is stored
\* and otherwise keeps its identifier and replaces every other field by the
\* supplied ones, and either way updatedAt is the time of the upsert.
C15_ProfileGetAndUpsert ==
    /\ resp.op = "getProfile" =>
          /\ RespOk
          /\ store[PROFILES] = {} => ProfileReturned = <<>>
          /\ store[PROFILES] # {} =>
                /\ Len(ProfileReturned) = 1
                /\ ProfileReturned[1] \in
                      {toGraphQL(d) : d \in store[PROFILES]}
    /\ UpsertDone =>
          /\ RespOk
          /\ DOMAIN ProfileReturned =
                DOMAIN resp.input[1] \cup {"id", "updatedAt"}
          /\ \A f \in DOMAIN resp.input[1] :
                ProfileReturned[f] = resp.input[1][f]
          /\ ProfileReturned.updatedAt = resp.at
          /\ resp.before # <<>> =>
                ProfileReturned.id = ToHexString(resp.before[1]["_id"])
          /\ {toGraphQL(d) : d \in store[PROFILES]} = {ProfileReturned}

\* An upsert at a later time replaced a stored profile that had a phone by
\* input without one.
C15_Witness ==
    /\ UpsertDone
    /\ RespOk
    /\ resp.before # <<>>
    /\ "phone" \in DOMAIN resp.before[1].personalInfo
    /\ "phone" \notin DOMAIN resp.input[1].personalInfo
    /\ resp.at > resp.before[1].updatedAt

\* A read found no profile.
C15_WitnessAbsent ==
    resp.op = "getProfile" /\ RespOk /\ ProfileReturned = <<>>

\* An upsert created the profile.
C15_WitnessCreated ==
    UpsertDone /\ RespOk /\ resp.before = <<>>

\* C16: whatever the order in which the steps of concurrent Profile upserts
\* interleave, starting from an empty collection, the store never holds more
\* than one Profile.
C16_AsStated_AtMostOneProfile == Cardinality(store[PROFILES]) <= 1

-----------------------------------------------------------------------------
(* Claims about the error mappers (SpecMappers) *)

Mapped(mapper) == resp.op = mapper

\* The description the mapper inspected and the error it threw.
MappedDescription == resp.input[1].message
MapperThrew == resp.outcome.error[1]

Describes(token) == Includes(MappedDescription, token)

\* C27: the provider mapper always throws an ai-service error, with the
\* configuration message when the description has "API key", else the
\* retry-later message for "rate limit", else the retry message for
\* "timeout", else the generic message; the store mapper always throws: a
\* database error with the connectivity message for "connection", else a
\* validation error with the already-exists message for "duplicate key",
\* else a database error with the generic message.
C27_MapperClassification ==
    /\ Mapped("handleAnthropicError") =>
          /\ resp.outcome.status = "error"
          /\ MapperThrew.cls = "APIError"
          /\ MapperThrew.code = AI_SERVICE_ERROR
          /\ MapperThrew.message =
                IF Describes("API key")
                THEN <<"AI service configuration error">>
                ELSE IF Describes("rate limit")
                THEN <<"AI service rate limit exceeded. Please try again later.">>
                ELSE IF Describes("timeout")
                THEN <<"AI service request timed out. Please try again.">>
                ELSE <<"Failed to generate content. Please try again later.">>
    /\ Mapped("handleDatabaseError") =>
          /\ resp.outcome.status = "error"
          /\ MapperThrew.cls = "APIError"
          /\ MapperThrew.code =
                IF Describes("connection") THEN DATABASE_ERROR
                ELSE IF Describes("duplicate key") THEN BAD_USER_INPUT
                ELSE DATABASE_ERROR
          /\ MapperThrew.message =
                IF Describes("connection")
                THEN <<"Database connection error. Please try again later.">>
                ELSE IF Describes("duplicate key")
                THEN <<"A record with this identifier already exists">>
                ELSE <<"Database operation failed. Please try again later.">>

\* The provider mapper classified a failure whose description has both
\* "rate limit" and "API key", in that order.
C27_Witness ==
    /\ Mapped("handleAnthropicError")
    /\ MappedDescription = <<"rate limit", "API key">>

\* The store mapper classified a failure whose description has both
\* "duplicate key" and "connection".
C27_WitnessStore ==
    /\ Mapped("handleDatabaseError")
    /\ MappedDescription = <<"duplicate key", "connection">>

-----------------------------------------------------------------------------
(* Claims about the store connection *)

HandleReturned(c) == conn.calls[c].pc = "returned"

\* C29: no connectToDatabase call returns a database handle before the connect
\* of the client that handle belongs to has completed successfully, whatever
\* the interleaving of the concurrent calls.
C29_AsStated_HandleOnlyAfterConnect ==
    \A c \in 1..MaxCalls : HandleReturned(c) => conn.calls[c].connected

Opened(k) == conn.status[k] = "connected"

ReturnsNow(c) == conn.calls[c].pc # "returned" /\ conn'.calls[c].pc = "returned"

\* C21: a client is constructed only by a call that needs the connection; once
\* a client is connected and until closeConnection is called, every
\* acquisition returns the handle of that client, no further client is
\* constructed, and the cached connection is left in place.
C21_OneConnectionUntilShutdown ==
    [][/\ conn'.constructed # conn.constructed =>
            \E c \in 1..MaxCalls :
               /\ conn.calls[c].pc = "idle"
               /\ conn'.calls[c].pc = "awaiting"
               /\ conn'.calls[c].client = conn'.constructed
       /\ \A k \in 1..MaxClients :
            Opened(k) /\ ~conn'.shutdown =>
               /\ Opened(k)'
               /\ conn'.constructed = conn.constructed
               /\ conn'.cachedClient = k
               /\ conn'.closing = 0
               /\ \A c \in 1..MaxCalls :
                     ReturnsNow(c) => conn'.calls[c].handle = k]_vars

\* Both calls hold the handle of the one connected client.
C21_Witness ==
    /\ ~conn.shutdown
    /\ conn.constructed = 1
    /\ Opened(1)
    /\ \A c \in 1..MaxCalls : HandleReturned(c) /\ conn.calls[c].handle = 1

\* A later client is connected after the first one failed to connect.
C21_WitnessAfterFailure ==
    /\ ~conn.shutdown
    /\ conn.status[1] = "failed"
    /\ Opened(2)
    /\ \E c \in 1..MaxCalls : HandleReturned(c) /\ conn.calls[c].handle = 2

-----------------------------------------------------------------------------
(* Claims about request authentication *)

KeyMissingOrWrong ==
    auth.header = <<>> \/ auth.header # auth.expectedKey

C22_WitnessUnconfigured ==
    /\ auth.expectedKey = <<>>
    /\ auth.handled > 0
    /\ auth.header = <<>>
    /\ auth.reply.status = 500

-----------------------------------------------------------------------------
(* Claims about context rendering *)

ContextRendered == resp.op = "buildCareerDataContext" /\ resp.outcome.status = "ok"

RenderedText == resp.outcome.result[1]

RenderedFrom == resp.input[1]

\* Positions of the divider lines of a text, and the k-th of them.
DividerLines(text) == {i \in 1..Len(text) : text[i] = <<"---">>}

NthDivider(text, k) ==
    CHOOSE d \in DividerLines(text) :
        Cardinality({e \in DividerLines(text) : e < d}) = k - 1

SectionHeadings ==
    << <<"# Career Data">>, <<"# Work Experience">>, <<"# Skills">>,
       <<"# Projects">>, <<"# Education">> >>

NoneRecorded ==
    << <<"No profile information available.">>,
       <<"No work experience recorded.">>, <<"No skills recorded.">>,
       <<"No projects recorded.">>, <<"No education recorded.">> >>

\* The heading line of the k-th section and the lines of its body.
HeadingAt(text, k) ==
    IF k = 1 THEN 1 ELSE NthDivider(text, k - 1) + 2

SectionBody(text, k) ==
    SubSeq(text,
           IF k = 1 THEN 3 ELSE HeadingAt(text, k) + 1,
           IF k = 5 THEN Len(text) ELSE NthDivider(text, k) - 2)

SectionIsEmpty(careerData, k) ==
    CASE k = 1 -> careerData.profile = <<>>
      [] k = 2 -> careerData.experiences = <<>>
      [] k = 3 -> careerData.skills = <<>>
      [] k = 4 -> careerData.projects = <<>>
      [] k = 5 -> careerData.educations = <<>>

C25_WitnessAllPresent ==
    /\ ContextRendered
    /\ \A k \in 1..5 : ~SectionIsEmpty(RenderedFrom, k)
    /\ Len(RenderedFrom.experiences) = 2

\* The distinct role-relevance values of a list in order of first occurrence.
RECURSIVE FirstOccurrences(_, _)
FirstOccurrences(skills, seen) ==
    IF skills = <<>> THEN <<>>
    ELSE IF skills[1].roleRelevance \in seen
    THEN FirstOccurrences(Tail(skills), seen)
    ELSE <<skills[1].roleRelevance>>
         \o FirstOccurrences(Tail(skills), seen \cup {skills[1].roleRelevance})

\* The group headings of a rendered skills section, top to bottom, and the
\* skill names listed under the g-th of them.
GroupHeadingLines(body) ==
    SelectSeq(body, LAMBDA line : line # <<>> /\ line[1] = "### ")

RenderedGroups(body) ==
    [g \in 1..Len(GroupHeadingLines(body)) |-> Tail(GroupHeadingLines(body)[g])]

SkillNameLines(body) ==
    SelectSeq(body, LAMBDA line : line # <<>> /\ line[1] \in {"### ", "- **"})

RECURSIVE NamesUnder(_, _, _)
NamesUnder(lines, relevance, inGroup) ==
    IF lines = <<>> THEN <<>>
    ELSE IF lines[1][1] = "### "
    THEN NamesUnder(Tail(lines), relevance, Tail(lines[1]) = relevance)
    ELSE (IF inGroup THEN <<lines[1][2]>> ELSE <<>>)
         \o NamesUnder(Tail(lines), relevance, inGroup)

NamesWith(skills, relevance) ==
    LET chosen == SelectSeq(skills, LAMBDA sk : sk.roleRelevance = relevance)
    IN  [i \in 1..Len(chosen) |-> chosen[i].name]

\* C26 as stated: for any skill list, the skills section has one group per
\* distinct role-relevance value, in the order of each value's first
\* occurrence in the list, and each group keeps the list's order.
C26_AsStated_GroupsInFirstOccurrenceOrder ==
    resp.op = "buildCareerDataContext" /\ RenderedFrom.skills # <<>> =>
        /\ resp.outcome.status = "ok"
        /\ LET body == SectionBody(RenderedText, 3)
               values == FirstOccurrences(RenderedFrom.skills, {})
           IN  /\ RenderedGroups(body) = values
               /\ \A g \in 1..Len(values) :
                     NamesUnder(SkillNameLines(body), values[g], FALSE)
                        = NamesWith(RenderedFrom.skills, values[g])

=============================================================================
